---- MODULE Spec2Model ----
(***************************************************************************)
(* mm-clikit: the command router of typer_plus.py.                         *)
(*                                                                         *)
(* TyperPlus keeps what was registered (registered_commands,               *)
(* registered_groups, _group_aliases, _registered_callback).  Every        *)
(* introspection (typer.main.get_command, list_commands, a dispatch) reads *)
(* the registered_callback property, which runs _ensure_version_setup      *)
(* once, and then builds a fresh AliasGroup (or, for a single command, a   *)
(* bare command) from the registrations.                                   *)
(***************************************************************************)
EXTENDS Integers, Sequences, FiniteSets, TLC

\* ------------------------------------------------------------------ bounds
MaxCommands == 2
MaxSubCommands == 1
MaxGroups == 2
\* calls of main on a group the caller kept
MaxRenders == 2
\* stop_process: the longest timeout and poll interval, and how far the clock runs
MaxTimeout == 2
MaxPollInterval == 2
MaxClock == 4
\* print_error_and_exit: the longest code and message, in characters
MaxText == 2
\* TomlConfig.load: the most lines of a file
MaxLines == 3

\* ------------------------------------------------------------------- state
VARIABLES
    registered_commands,   \* router -> sequence of command infos (Typer.registered_commands)
    registered_groups,     \* the root's mounted sub-routers, [name, sub] (Typer.registered_groups)
    group_aliases,         \* the root's _group_aliases: dict name -> aliases
    registered_callback,   \* the root's _registered_callback
    package_name,          \* whether the root was constructed with a package name
    version_setup_done,    \* the root's _version_setup_done
    hide_meta_options,     \* the hide_meta_options the root was constructed with
    no_args_is_help,       \* the no_args_is_help the root was constructed with
    group,                 \* the click group a caller got from get_command and kept
    pid_file,              \* process.py: what the PID path holds
    tmp_file,              \* process.py: what write_pid_file's temporary file holds
    process,               \* process.py: the process a PID names
    clock,                 \* process.py: time.monotonic(), in poll intervals
    pc,                    \* the utility call under way and where it stands
    call,                  \* the arguments of the utility call under way
    seen,                  \* what a reader of the PID path got last
    config_file,           \* toml_config.py: what the configuration path holds
    result,                \* what the last utility call returned, raised or wrote
    last                   \* the last call on the root or the sub-router, and its outcome

vars == <<registered_commands, registered_groups, group_aliases, registered_callback,
          package_name, version_setup_done, hide_meta_options, no_args_is_help, group,
          pid_file, tmp_file, process, clock, pc, call, seen, config_file, result, last>>

\* what the router's operations never touch
outside == <<pid_file, tmp_file, process, clock, pc, call, seen, config_file, result>>

\* the router itself
router == <<registered_commands, registered_groups, group_aliases, registered_callback,
            package_name, version_setup_done, hide_meta_options, no_args_is_help, group, last>>

\* ------------------------------------------------------------------ values
None == "None"
Root == "root"
Sub == "sub"
Sub2 == "sub2"
Routers == {Root, Sub, Sub2}
VersionParam == "_version"
VersionFlag == "--version"
ShortVersionFlag == "-V"
VersionFlags == {VersionFlag, ShortVersionFlag}
\* the option strings of the modelled routers: the version flag, the option of a
\* callback's debug parameter, and click's and AliasGroup's help options
CompletionOptions == {"--install-completion", "--show-completion"}
\* _META_OPTION_STRINGS
MetaOptionStrings ==
    {"--help", "--help-all", VersionFlag, ShortVersionFlag} \cup CompletionOptions
OptionTokens == VersionFlags \cup {"--debug", "--help", "--help-all"}

\* ------------------------------------------- Python dict, insertion-ordered
\* A dict is a sequence of [k, v]; assigning an existing key keeps its place.
DictHas(d, key) == \E i \in 1..Len(d) : d[i].k = key

DictGet(d, key) == d[CHOOSE i \in 1..Len(d) : d[i].k = key].v

DictSet(d, key, val) ==
    IF DictHas(d, key)
    THEN [i \in 1..Len(d) |-> IF d[i].k = key THEN [k |-> key, v |-> val] ELSE d[i]]
    ELSE Append(d, [k |-> key, v |-> val])

DictKeys(d) == [i \in 1..Len(d) |-> d[i].k]

Range(s) == {s[i] : i \in 1..Len(s)}

\* --------------------------------------------------- Typer: building a group
\* The click command Typer builds from one registered command: its callback
\* carries the handler, the _typer_aliases attribute and the exposed signature.
CommandFromInfo(info) ==
    [name |-> info.name, kind |-> "command", handler |-> info.handler,
     params |-> info.params, aliases |-> info.aliases, sig |-> info.sig, sub |-> "",
     no_args_is_help |-> info.no_args_is_help]

\* The click group Typer builds for a mounted sub-router (its callback is None,
\* so it carries no alias attribute).
GroupObject(name, sub) ==
    [name |-> name, kind |-> "group", handler |-> 0,
     params |-> <<>>, aliases |-> <<>>, sig |-> <<>>, sub |-> sub,
     no_args_is_help |-> TRUE]

RECURSIVE AddCommands(_, _, _)
AddCommands(d, infos, i) ==
    IF i > Len(infos) THEN d
    ELSE AddCommands(DictSet(d, infos[i].name, CommandFromInfo(infos[i])), infos, i + 1)

\* ------------------------------------------------------ AliasGroup.__init__
\* mutant: the aliases of a command are never entered
SetAliasesDropped(g, cmd_name, cmd, aliases, j) == g

\* mutant: an alias is entered as its own canonical name
SetAliasesToItself(g, cmd_name, cmd, aliases, j) ==
    [g EXCEPT !.alias_to_cmd = [i \in 1..Len(aliases) |-> [k |-> aliases[i], v |-> aliases[i]]] \o @]

\* mutant: an alias already in the table keeps its first canonical name
SetAliasesKeepFirst(g, cmd_name, cmd, aliases, j) ==
    LET Fresh(a) == ~DictHas(g.alias_to_cmd, a)
        fresh == SelectSeq(aliases, Fresh)
    IN [g EXCEPT !.alias_to_cmd = @ \o [i \in 1..Len(fresh) |-> [k |-> fresh[i], v |-> cmd_name]],
                 !.commands = @ \o [i \in 1..Len(fresh) |-> [k |-> fresh[i], v |-> cmd]]]

RECURSIVE SetAliases(_, _, _, _, _)
\* for alias in aliases: _alias_to_cmd[alias] = cmd_name; commands[alias] = cmd
SetAliases(g, cmd_name, cmd, aliases, j) ==
    IF j > Len(aliases) THEN g
    ELSE SetAliases([g EXCEPT !.alias_to_cmd = DictSet(@, aliases[j], cmd_name),
                              !.commands = DictSet(@, aliases[j], cmd)],
                    cmd_name, cmd, aliases, j + 1)

RECURSIVE CommandLevelAliases(_, _, _)
\* iterates a snapshot of commands.items() taken before the loop
CommandLevelAliases(g, snapshot, i) ==
    IF i > Len(snapshot) THEN g
    ELSE LET cmd_name == snapshot[i].k
             cmd == snapshot[i].v
         IN IF cmd.aliases = <<>>
            THEN CommandLevelAliases(g, snapshot, i + 1)
            ELSE CommandLevelAliases(
                    SetAliases([g EXCEPT !.cmd_aliases = DictSet(@, cmd_name, cmd.aliases)],
                               cmd_name, cmd, cmd.aliases, 1),
                    snapshot, i + 1)

\* mutant: the aliases of a mounted sub-router are never entered
SetGroupAliasesDropped(g, cmd_name, aliases, j) == g

RECURSIVE SetGroupAliases(_, _, _, _)
\* for alias in g_aliases: ...; commands[alias] = commands[cmd_name]
SetGroupAliases(g, cmd_name, aliases, j) ==
    IF j > Len(aliases) THEN g
    ELSE SetGroupAliases([g EXCEPT !.alias_to_cmd = DictSet(@, aliases[j], cmd_name),
                                   !.commands = DictSet(@, aliases[j], DictGet(g.commands, cmd_name))],
                         cmd_name, aliases, j + 1)

RECURSIVE GroupLevelAliases(_, _, _)
GroupLevelAliases(g, bound, i) ==
    IF i > Len(bound) THEN g
    ELSE IF ~DictHas(g.commands, bound[i].k)
         THEN GroupLevelAliases(g, bound, i + 1)
         ELSE GroupLevelAliases(
                 SetGroupAliases([g EXCEPT !.cmd_aliases = DictSet(@, bound[i].k, bound[i].v)],
                                 bound[i].k, bound[i].v, 1),
                 bound, i + 1)

\* AliasGroup(commands=commands, params=params) of a class bound to
\* bound_group_aliases and hide: _show_full_help starts False, --help-all is
\* appended to the options when meta options are hidden, then the two alias
\* loops run.  names holds cmd.name of the command objects whose name is not
\* the one they were built with (none at construction).
AliasGroupInit(commands, bound_group_aliases, hide, params) ==
    GroupLevelAliases(
        CommandLevelAliases([commands |-> commands, alias_to_cmd |-> <<>>, cmd_aliases |-> <<>>,
                             hide_meta_options |-> hide, show_full_help |-> FALSE,
                             params |-> params \cup (IF hide THEN {"--help-all"} ELSE {}),
                             names |-> <<>>],
                            commands, 1),
        bound_group_aliases, 1)

\* the click group of a mounted sub-router: it mounts nothing itself
\* (a sub-router is a TyperPlus() of its own: meta options hidden, no callback)
SubGroup(r) == AliasGroupInit(AddCommands(<<>>, registered_commands[r], 1), <<>>, TRUE, {})

RECURSIVE MergeCommands(_, _, _)
MergeCommands(d, subCommands, i) ==
    IF i > Len(subCommands) THEN d
    ELSE MergeCommands(DictSet(d, subCommands[i].k, subCommands[i].v), subCommands, i + 1)

\* mutant: a sub-router's name is entered at the front of the mapping
AddGroupsInFront(d, groups, i) ==
    IF i > Len(groups) THEN d
    ELSE IF groups[i].name # None /\ ~DictHas(d, groups[i].name)
         THEN <<[k |-> groups[i].name, v |-> GroupObject(groups[i].name, groups[i].sub)]>> \o d
         ELSE d

RECURSIVE AddGroups(_, _, _)
AddGroups(d, groups, i) ==
    IF i > Len(groups) THEN d
    ELSE IF groups[i].name # None
         THEN AddGroups(DictSet(d, groups[i].name, GroupObject(groups[i].name, groups[i].sub)),
                        groups, i + 1)
         ELSE AddGroups(MergeCommands(d, SubGroup(groups[i].sub).commands, 1), groups, i + 1)

\* commands handed to the root's group class: registered commands first, then
\* groups; an unnamed sub-router's commands are merged into the parent.
TyperCommands(infos, groups) == AddGroups(AddCommands(<<>>, infos, 1), groups, 1)

\* mutant: a name the group does not know falls back to its first command
ResolveUnknownToFirst(g, cmd_name) ==
    IF DictHas(g.alias_to_cmd, cmd_name) THEN DictGet(g.alias_to_cmd, cmd_name)
    ELSE IF DictHas(g.commands, cmd_name) \/ g.commands = <<>> THEN cmd_name
    ELSE g.commands[1].k

\* AliasGroup.get_command: one alias lookup, then the name lookup
Resolve(g, cmd_name) ==
    IF DictHas(g.alias_to_cmd, cmd_name) THEN DictGet(g.alias_to_cmd, cmd_name) ELSE cmd_name

HasCommand(g, cmd_name) == DictHas(g.commands, Resolve(g, cmd_name))

GetCommandObject(g, cmd_name) == DictGet(g.commands, Resolve(g, cmd_name))

\* mutant: every key of the mapping is listed
ListCommandsAllKeys(g) == DictKeys(g.commands)

\* AliasGroup.list_commands
ListCommandsOf(g) ==
    LET NotAlias(name) == ~DictHas(g.alias_to_cmd, name)
    IN SelectSeq(DictKeys(g.commands), NotAlias)

NoCallback == [set |-> FALSE, origin |-> "", params |-> <<>>, sig |-> <<>>]

\* how a call ended: kind, the handler that ran and the keyword arguments it was
\* given, the callback that ran before it ("" for none) and its keyword
\* arguments, what a version callback printed, and what a help render showed
\* (the command listing and the option strings of the visible options)
Outcome(kind, handler, args) ==
    [kind |-> kind, handler |-> handler, args |-> args, cb |-> "", cbargs |-> <<>>,
     output |-> <<>>, listing |-> <<>>, shown |-> {}]

\* a call: the operation, its inputs (name, aliases, argv), how it ended (kind,
\* handler, args: the handler that ran and what it was given), the names it
\* returned, the mode Typer resolved the root to ("" when it resolved none),
\* whether the call is the one that ran the version setup, and the router called
Call(op, name, aliases, argv, out, names, mode) ==
    [op |-> op, name |-> name, aliases |-> aliases, argv |-> argv,
     kind |-> out.kind, handler |-> out.handler, args |-> out.args,
     cb |-> out.cb, cbargs |-> out.cbargs, output |-> out.output,
     listing |-> out.listing, shown |-> out.shown,
     names |-> names, mode |-> mode, setup |-> FALSE, router |-> Root]

Ok == Outcome("ok", 0, <<>>)
UsageError == Outcome("usage_error", 0, <<>>)

Introspections == {"get_command", "list_commands", "invoke"}

\* the function the next registration on r decorates: every one is distinct
\* (the root's are 1, 2, ..., the sub-routers' 101, 102, ... and 201, 202, ...)
NextHandler(r) ==
    (CASE r = Root -> 0 [] r = Sub -> 100 [] OTHER -> 200) + Len(registered_commands[r]) + 1

\* -------------------------------------------------- create_version_callback
\* the router's package name and what importlib.metadata.version returns for it
PackageName == "mm-clikit"
PackageVersion == "1.2.3"

\* mutant: the callback prints and exits whatever value it is given
VersionCallbackUnconditional(value) ==
    [output |-> <<PackageName, ": ", PackageVersion>>, exit |-> TRUE]

\* version_callback(value): print "{package_name}: {version}" and raise typer.Exit
VersionCallback(value) ==
    IF value THEN [output |-> <<PackageName, ": ", PackageVersion>>, exit |-> TRUE]
    ELSE [output |-> <<>>, exit |-> FALSE]

\* a version callback the caller wrote for a flag of their own
\* (custom_version_callback of the tests)
CallerVersionCallback(value) ==
    IF value THEN [output |-> <<"custom-version-output">>, exit |-> TRUE]
    ELSE [output |-> <<>>, exit |-> FALSE]

\* ------------------------------------------------------ TyperPlus.callback
\* a parameter declared as an option with a default; the others are required
IsFlagParam(p) == p \in {"debug", VersionParam}

\* mutant: the decorator injects without looking at the function's parameters
CallbackSigAlwaysInjected(pkg, params) ==
    IF ~pkg THEN params ELSE Append(params, VersionParam)

\* mutant: the decorator registers the function as it is
CallbackSigAsDeclared(pkg, params) == params

\* the signature the registered callback exposes
CallbackSig(pkg, params) ==
    IF ~pkg THEN params
    ELSE IF VersionParam \in Range(params) THEN params
    ELSE Append(params, VersionParam)

\* mutant: the version callback is registered whatever the router's shape
EnsureVersionSetupEager(cmds, groups, cb, done, pkg) ==
    IF done \/ ~pkg THEN [cmds |-> cmds, cb |-> cb, done |-> done, error |-> FALSE]
    ELSE IF cb.set THEN [cmds |-> cmds, cb |-> cb, done |-> TRUE, error |-> FALSE]
    ELSE [cmds |-> cmds,
          cb |-> [set |-> TRUE, origin |-> "default", params |-> <<VersionParam>>,
                 sig |-> <<VersionParam>>],
          done |-> TRUE, error |-> FALSE]

\* mutant: the setup runs at every read, the flag guarding it is ignored
EnsureVersionSetupAtEveryRead(cmds, groups, cb, done, pkg) ==
    IF ~pkg \/ cb.set THEN [cmds |-> cmds, cb |-> cb, done |-> pkg, error |-> FALSE]
    ELSE IF Len(cmds) = 1 /\ groups = <<>>
         THEN [cmds |-> [cmds EXCEPT ![1].sig = Append(@, VersionParam)],
               cb |-> cb, done |-> TRUE, error |-> FALSE]
         ELSE [cmds |-> cmds,
               cb |-> [set |-> TRUE, origin |-> "default", params |-> <<VersionParam>>,
                 sig |-> <<VersionParam>>],
               done |-> TRUE, error |-> FALSE]

\* mutant: the setup runs for a router without a package name as well
EnsureVersionSetupWithoutPackage(cmds, groups, cb, done, pkg) ==
    IF done THEN [cmds |-> cmds, cb |-> cb, done |-> done, error |-> FALSE]
    ELSE IF cb.set THEN [cmds |-> cmds, cb |-> cb, done |-> TRUE, error |-> FALSE]
    ELSE IF Len(cmds) = 1 /\ groups = <<>>
         THEN [cmds |-> [cmds EXCEPT ![1].sig = Append(@, VersionParam)],
               cb |-> cb, done |-> TRUE, error |-> FALSE]
         ELSE [cmds |-> cmds,
               cb |-> [set |-> TRUE, origin |-> "default", params |-> <<VersionParam>>,
                       sig |-> <<VersionParam>>],
               done |-> TRUE, error |-> FALSE]

\* mutant: the setup is marked done and injects nothing
EnsureVersionSetupSkipped(cmds, groups, cb, done, pkg) ==
    [cmds |-> cmds, cb |-> cb, done |-> done \/ pkg, error |-> FALSE]

\* ------------------------------------------- TyperPlus._ensure_version_setup
\* has_required_params: some parameter of the function has no default
HasRequiredParams(params) == \E i \in 1..Len(params) : ~IsFlagParam(params[i])

\* mutant: the app-level setting is handed to the command whatever it declares
PropagateNoArgsIsHelpAlways(info) == [info EXCEPT !.no_args_is_help = @ \/ no_args_is_help]

\* the app-level no_args_is_help reaches the sole command only if the command
\* has a required parameter
PropagateNoArgsIsHelp(info) ==
    [info EXCEPT !.no_args_is_help = @ \/ (no_args_is_help /\ HasRequiredParams(info.sig))]

\* sig.replace(parameters=[*sig.parameters.values(), version_param]): a
\* signature cannot hold two parameters of one name
SigReplaceRaises(sig) == VersionParam \in Range(sig)

\* error: the setup raised ValueError (after it had marked itself done)
EnsureVersionSetup(cmds, groups, cb, done, pkg) ==
    IF done \/ ~pkg THEN [cmds |-> cmds, cb |-> cb, done |-> done, error |-> FALSE]
    ELSE IF cb.set THEN [cmds |-> cmds, cb |-> cb, done |-> TRUE, error |-> FALSE]
    ELSE IF Len(cmds) = 1 /\ groups = <<>>
         THEN IF SigReplaceRaises(cmds[1].sig)
              THEN [cmds |-> cmds, cb |-> cb, done |-> TRUE, error |-> TRUE]
              ELSE [cmds |-> [cmds EXCEPT
                                 ![1] = [PropagateNoArgsIsHelp(@)
                                            EXCEPT !.sig = Append(@, VersionParam)]],
                    cb |-> cb, done |-> TRUE, error |-> FALSE]
         ELSE [cmds |-> cmds,
               cb |-> [set |-> TRUE, origin |-> "default", params |-> <<VersionParam>>,
                       sig |-> CallbackSig(pkg, <<VersionParam>>)],
               done |-> TRUE, error |-> FALSE]

\* Typer's get_command: a group when there is a callback, a sub-router or more
\* than one command; the sole command itself when there is exactly one.
TyperMode(cmds, groups, cb) ==
    IF cb.set \/ groups # <<>> \/ Len(cmds) > 1 THEN "multi"
    ELSE IF Len(cmds) = 1 THEN "single"
    ELSE "error"

\* the registered_callback property: the root's state after it was read
AfterRead ==
    EnsureVersionSetup(registered_commands[Root], registered_groups, registered_callback,
                       version_setup_done, package_name)

\* the options Typer gives the root's group for a callback exposing sig
CallbackOptions(sig) ==
    (IF VersionParam \in Range(sig) THEN VersionFlags ELSE {})
    \cup (IF "debug" \in Range(sig) THEN {"--debug"} ELSE {})

\* the root's group as typer.main.get_command returns it: built by the root's
\* bound class, the completion options appended afterwards
RootGroup(cmds, cb) ==
    LET g == AliasGroupInit(TyperCommands(cmds, registered_groups), group_aliases,
                            hide_meta_options, CallbackOptions(cb.sig))
    IN [g EXCEPT !.params = @ \cup CompletionOptions]

\* ------------------------------------------------------------ help rendering
\* A command's name as help shows it: the name it was built with and the
\* parenthesised alias lists appended to it, "name (a1, ..., an)" having one.
Plain(name) == [base |-> name, deco |-> <<>>]
Decorated(name, aliases) == [base |-> name, deco |-> <<aliases>>]

DictRemove(d, key) ==
    LET Other(e) == e.k # key
    IN SelectSeq(d, Other)

\* cmd.name of a command object of the group, and its assignment
NameOf(g, cmd) == IF DictHas(g.names, cmd) THEN DictGet(g.names, cmd) ELSE Plain(cmd.name)

SetName(g, cmd, n) ==
    [g EXCEPT !.names = IF n = Plain(cmd.name) THEN DictRemove(@, cmd) ELSE DictSet(@, cmd, n)]

\* format_help, first loop: for every entry of _cmd_aliases, remember the
\* name of the command under that key and append the alias list to it
RECURSIVE PatchNames(_, _, _)
PatchNames(g, originals, i) ==
    IF i > Len(g.cmd_aliases) THEN [g |-> g, originals |-> originals]
    ELSE LET cmd_name == g.cmd_aliases[i].k
             aliases == g.cmd_aliases[i].v
         IN IF ~DictHas(g.commands, cmd_name) THEN PatchNames(g, originals, i + 1)
            ELSE LET cmd == DictGet(g.commands, cmd_name)
                     n == NameOf(g, cmd)
                 IN PatchNames(SetName(g, cmd, [n EXCEPT !.deco = Append(@, aliases)]),
                               DictSet(originals, cmd_name, n), i + 1)

\* format_help, finally: the remembered names are assigned back, in the order
\* they were remembered
RECURSIVE RestoreNames(_, _, _)
RestoreNames(g, originals, i) ==
    IF i > Len(originals) THEN g
    ELSE IF ~DictHas(g.commands, originals[i].k) THEN RestoreNames(g, originals, i + 1)
    ELSE RestoreNames(SetName(g, DictGet(g.commands, originals[i].k), originals[i].v),
                      originals, i + 1)

\* the options a render shows: the meta options and --help are hidden for the
\* render (and their hidden flags put back after it) unless hiding is off or
\* --help-all marked the group
ShownOptions(g) ==
    IF g.hide_meta_options /\ ~g.show_full_help
    THEN (g.params \cup {"--help"}) \ MetaOptionStrings
    ELSE g.params \cup {"--help"}

\* AliasGroup.format_help with Typer's Rich renderer, which lists cmd.name of
\* the command of every listed name: the group after the call, and the render
FormatHelp(g) ==
    LET patched == PatchNames(g, <<>>, 1)
        listed == ListCommandsOf(g)
    IN [g |-> RestoreNames(patched.g, patched.originals, 1),
        listing |-> [i \in 1..Len(listed) |->
                        NameOf(patched.g, GetCommandObject(patched.g, listed[i]))],
        shown |-> ShownOptions(g)]

\* help_all_callback: mark the group, echo ctx.get_help(), exit
HelpAllCallback(g) == FormatHelp([g EXCEPT !.show_full_help = TRUE])

\* AliasGroup.format_commands, the non-Rich fallback: the listed keys, with
\* the alias list of the key
FormatCommands(g) ==
    LET listed == ListCommandsOf(g)
    IN [i \in 1..Len(listed) |->
           IF DictHas(g.cmd_aliases, listed[i])
           THEN Decorated(listed[i], DictGet(g.cmd_aliases, listed[i]))
           ELSE Plain(listed[i])]

HelpOutcome(render) ==
    [Outcome("help", 0, <<>>) EXCEPT !.listing = render.listing, !.shown = render.shown]

\* ------------------------------------------------------------------ dispatch
IsOption(t) == t \in OptionTokens
IsPositional(t) == t \notin OptionTokens

\* the leading option tokens of a group's arguments (a group stops parsing its
\* own options at the first other token)
RECURSIVE LeadingOptions(_)
LeadingOptions(args) ==
    IF args = <<>> \/ ~IsOption(args[1]) THEN <<>>
    ELSE <<args[1]>> \o LeadingOptions(Tail(args))

\* the keyword arguments click binds for a callable that exposes sig: a flag
\* parameter from its option, the others from the positional arguments in order
Bind(sig, options, positionals) ==
    [i \in 1..Len(sig) |->
        [k |-> sig[i],
         v |-> IF sig[i] = VersionParam THEN None
               ELSE IF sig[i] = "debug"
                    THEN (IF "--debug" \in Range(options) THEN "True" ELSE "False")
               ELSE positionals[Cardinality({j \in 1..i : ~IsFlagParam(sig[j])})]]]

\* mutant: the wrapper hands the version value on to the function it wraps
WrapperForwardsAll(kw) == kw

\* wrapper(*args, _version=None, **f_kwargs): return f(*args, **f_kwargs)
WrapperCall(kw) ==
    LET Kept(e) == e.k # VersionParam
    IN SelectSeq(kw, Kept)

\* what the registered function receives: through the wrapper when the version
\* parameter was injected, directly otherwise
HandlerKwargs(params, sig, kw) == IF sig = params THEN kw ELSE WrapperCall(kw)

Continue == Outcome("continue", 0, <<>>)

\* click calls the callback of the version option with the flag's value, given
\* or not: the caller's callback for an option the function declared itself,
\* create_version_callback's otherwise; typer.Exit ends the invocation
VersionOption(declared, given) ==
    LET r == IF declared THEN CallerVersionCallback(given) ELSE VersionCallback(given)
    IN IF r.exit
       THEN [Outcome(IF declared THEN "user_version" ELSE "version", 0, <<>>)
                EXCEPT !.output = r.output]
       ELSE Continue

InvokeCommand(cmd, args) ==
    LET options == SelectSeq(args, IsOption)
        positionals == SelectSeq(args, IsPositional)
        accepted == {"--help"} \cup (IF VersionParam \in Range(cmd.sig) THEN VersionFlags ELSE {})
        required == Cardinality({j \in 1..Len(cmd.sig) : ~IsFlagParam(cmd.sig[j])})
        version == IF VersionParam \in Range(cmd.sig)
                   THEN VersionOption(VersionParam \in Range(cmd.params),
                                      Range(options) \cap VersionFlags # {})
                   ELSE Continue
        help == [Outcome("help", 0, <<>>) EXCEPT !.shown = accepted]
    IN IF args = <<>> /\ cmd.no_args_is_help THEN help
       ELSE IF \E i \in 1..Len(options) : options[i] \notin accepted THEN UsageError
       ELSE IF options # <<>> /\ options[1] = "--help" THEN help
       ELSE IF version # Continue THEN version
       ELSE IF options # <<>> THEN help
       ELSE IF Len(positionals) = required
            THEN Outcome("handler", cmd.handler,
                         HandlerKwargs(cmd.params, cmd.sig, Bind(cmd.sig, options, positionals)))
       ELSE UsageError

InvokeSubGroup(g, args) ==
    IF args = <<>> THEN HelpOutcome(FormatHelp(g))
    ELSE IF IsOption(args[1])
         THEN IF args[1] = "--help" THEN HelpOutcome(FormatHelp(g))
              ELSE IF args[1] = "--help-all" /\ "--help-all" \in g.params
                   THEN HelpOutcome(HelpAllCallback(g))
              ELSE UsageError
    ELSE IF ~HasCommand(g, args[1]) THEN UsageError
    ELSE InvokeCommand(GetCommandObject(g, args[1]), Tail(args))

\* the root's callback ran before the subcommand was entered
AfterCallback(cb, options, out) ==
    IF ~cb.set THEN out
    ELSE [out EXCEPT !.cb = cb.origin,
                     !.cbargs = HandlerKwargs(cb.params, cb.sig, Bind(cb.sig, options, <<>>))]

\* group.main(args): how the call ends (out) and the group after it (g); the
\* eager options run in the order they were given
RootGroupRun(g, cb, args) ==
    LET options == LeadingOptions(args)
        rest == SubSeq(args, Len(options) + 1, Len(args))
        accepted == {"--help"} \cup g.params
        Eager(o) == o \in VersionFlags \cup {"--help", "--help-all"}
        eager == SelectSeq(options, Eager)
        Same(out) == [out |-> out, g |-> g]
        Rendered(r) == [out |-> HelpOutcome(r), g |-> r.g]
        version == IF VersionParam \in Range(cb.sig)
                   THEN VersionOption(cb.origin = "user" /\ VersionParam \in Range(cb.params),
                                      Range(options) \cap VersionFlags # {})
                   ELSE Continue
    IN IF args = <<>>
       THEN (IF no_args_is_help THEN Rendered(FormatHelp(g)) ELSE Same(UsageError))
       ELSE IF \E i \in 1..Len(options) : options[i] \notin accepted THEN Same(UsageError)
       ELSE IF eager # <<>> /\ eager[1] = "--help" THEN Rendered(FormatHelp(g))
       ELSE IF eager # <<>> /\ eager[1] = "--help-all" THEN Rendered(HelpAllCallback(g))
       ELSE IF version # Continue THEN Same(version)
       ELSE IF eager # <<>> THEN Rendered(FormatHelp(g))
       ELSE IF rest = <<>> THEN Same(UsageError)
       ELSE IF ~HasCommand(g, rest[1]) THEN Same(UsageError)
       ELSE LET cmd == GetCommandObject(g, rest[1])
            IN Same(AfterCallback(cb, options,
                  IF cmd.kind = "group" THEN InvokeSubGroup(SubGroup(cmd.sub), Tail(rest))
                  ELSE InvokeCommand(cmd, Tail(rest))))

InvokeRootGroup(g, cb, args) == RootGroupRun(g, cb, args).out

\* ------------------------------------------------- process.py: PID files
\* a path: nothing there, something that cannot be read, or a file with a text
Absent == [exists |-> FALSE, readable |-> FALSE, text |-> <<>>]
Unreadable == [exists |-> TRUE, readable |-> FALSE, text |-> <<>>]
File(text) == [exists |-> TRUE, readable |-> TRUE, text |-> text]

\* int | None
NoPid == [some |-> FALSE, pid |-> 0]
SomePid(n) == [some |-> TRUE, pid |-> n]

Digits == <<"0", "1", "2", "3", "4", "5", "6", "7", "8", "9">>
Whitespace == {" ", "\n", "\t"}

IsDigit(c) == c \in Range(Digits)
DigitValue(c) == (CHOOSE i \in 1..Len(Digits) : Digits[i] = c) - 1

\* str.strip()
RECURSIVE LStrip(_)
LStrip(s) == IF s # <<>> /\ Head(s) \in Whitespace THEN LStrip(Tail(s)) ELSE s

RECURSIVE RStrip(_)
RStrip(s) ==
    IF s # <<>> /\ s[Len(s)] \in Whitespace THEN RStrip(SubSeq(s, 1, Len(s) - 1)) ELSE s

Strip(s) == RStrip(LStrip(s))

\* the value of a run of decimal digits
RECURSIVE DigitsValue(_)
DigitsValue(s) ==
    IF s = <<>> THEN 0 ELSE 10 * DigitsValue(SubSeq(s, 1, Len(s) - 1)) + DigitValue(s[Len(s)])

\* int(str): surrounding whitespace dropped, an optional sign, then one or
\* more decimal digits; anything else is a ValueError
ParseInt(text) ==
    LET s == Strip(text)
        signed == s # <<>> /\ Head(s) \in {"+", "-"}
        body == IF signed THEN Tail(s) ELSE s
    IN IF body = <<>> \/ \E i \in 1..Len(body) : ~IsDigit(body[i])
       THEN [ok |-> FALSE, value |-> 0]
       ELSE [ok |-> TRUE,
             value |-> IF signed /\ Head(s) = "-" THEN 0 - DigitsValue(body)
                       ELSE DigitsValue(body)]

\* str(int) of a PID
RECURSIVE ToDigits(_)
ToDigits(n) ==
    IF n < Len(Digits) THEN <<Digits[n + 1]>>
    ELSE ToDigits(n \div Len(Digits)) \o <<Digits[(n % Len(Digits)) + 1]>>

\* f"{os.getpid()}\n"
FormatPid(pid) == ToDigits(pid) \o <<"\n">>

\* pid if pid > 0 else None
AnyOrNone(pid) == SomePid(pid)
PositiveOrNone(pid) == IF pid > 0 THEN SomePid(pid) ELSE NoPid

\* read_pid_file
ReadPid(f) ==
    IF ~f.exists \/ ~f.readable THEN NoPid
    ELSE LET parsed == ParseInt(Strip(f.text))
         IN IF ~parsed.ok THEN NoPid ELSE PositiveOrNone(parsed.value)

\* os.getpid() and the other PIDs a file may name
SelfPid == 42
Pids == {7, SelfPid, 12345}

\* the two files of write_pid_file, and what each of its steps does to them
OpenPidPath(fs) == [fs EXCEPT !.tmp = File(<<>>), !.pid = File(<<>>)]
Mkstemp(fs) == [fs EXCEPT !.tmp = File(<<>>)]
OsWrite(fs, data) == [fs EXCEPT !.tmp = File(@.text \o data)]
Replace(fs) == [pid |-> fs.tmp, tmp |-> Absent]
Unlink(fs) == [fs EXCEPT !.tmp = Absent]

NoCall == [op |-> ""]
NotSeen == [read |-> FALSE, during |-> FALSE, content |-> Absent, pid |-> NoPid]
NoResult == [op |-> "", kind |-> ""]

\* command_contains: None or a substring
NoNeedle == [given |-> FALSE, text |-> <<>>]
Needle(text) == [given |-> TRUE, text |-> text]

\* command_contains in result.stdout
Contains(needle, hay) ==
    \E i \in 1..(Len(hay) + 1) :
       /\ i + Len(needle) - 1 <= Len(hay)
       /\ SubSeq(hay, i, i + Len(needle) - 1) = needle

\* os.kill(pid, 0): what it raises
KillZero(status) ==
    CASE status = "dead" -> "ProcessLookupError"
      [] status = "foreign" -> "PermissionError"
      [] OTHER -> "ok"

\* if remove_stale: pid_path.unlink(missing_ok=True)
RemoveAlways(f, remove_stale) == Absent
RemoveStale(f, remove_stale) == IF remove_stale THEN Absent ELSE f

\* is_process_running: what it returns or raises, and what it leaves at the
\* PID path.  ps is what running ps did, unlink_ok whether an unlink succeeds.
IsProcessRunningOutcome(f, statuses, args, ps, unlink_ok) ==
    LET pid == ReadPid(f)
        Return(v) == [kind |-> "return", value |-> v, pid |-> pid, file |-> f]
    IN IF ~pid.some THEN Return(FALSE)
       ELSE IF args.skip_self /\ pid.pid = SelfPid THEN Return(FALSE)
       ELSE LET probe == KillZero(statuses[pid.pid])
            IN CASE probe = "ProcessLookupError" ->
                      IF RemoveStale(f, args.remove_stale) # f /\ ~unlink_ok
                      THEN [kind |-> "OSError", value |-> FALSE, pid |-> pid, file |-> f]
                      ELSE [Return(FALSE) EXCEPT !.file = RemoveStale(f, args.remove_stale)]
                 [] probe = "PermissionError" -> Return(TRUE)
                 [] OTHER ->
                      IF args.command_contains.given
                      THEN IF ps.raised THEN Return(FALSE)
                           ELSE Return(Contains(args.command_contains.text, ps.stdout))
                      ELSE Return(TRUE)

\* ------------------------------------------------------ dual_mode_output.py
\* json.dumps of a str: quoted, with the quote, the backslash and the newline
\* escaped
EscapeNothing(c) == <<c>>
EscapeChar(c) ==
    CASE c = "\"" -> <<"\\", "\"">>
      [] c = "\\" -> <<"\\", "\\">>
      [] c = "\n" -> <<"\\", "n">>
      [] OTHER -> <<c>>

RECURSIVE Escape(_)
Escape(text) == IF text = <<>> THEN <<>> ELSE EscapeChar(Head(text)) \o Escape(Tail(text))

JsonString(text) == <<"\"">> \o Escape(text) \o <<"\"">>

\* the punctuation json.dumps puts around the three values of the envelope
EnvelopeOpen == "{\"ok\": false, \"error\": "
EnvelopeMiddle == ", \"message\": "
EnvelopeClose == "}"

\* json.dumps({"ok": False, "error": code, "message": message})
JsonErrorEnvelope(code, message) ==
    <<EnvelopeOpen>> \o JsonString(code) \o <<EnvelopeMiddle>> \o JsonString(message)
        \o <<EnvelopeClose>>

\* print(...): the text and a newline
PrintLine(text) == text \o <<"\n">>

\* f"Error: {message}"
ErrorLine(message) == <<"Error: ">> \o message

\* typer.Exit(1)
ErrorExitCode == 1

\* print_error_and_exit: what it writes and how it leaves
PrintErrorAndExitOutcome(json_mode, code, message) ==
    [op |-> "print_error_and_exit",
     kind |-> "Exit",
     exit_code |-> ErrorExitCode,
     stdout |-> IF json_mode THEN PrintLine(JsonErrorEnvelope(code, message)) ELSE <<>>,
     stderr |-> IF json_mode THEN <<>> ELSE PrintLine(ErrorLine(message))]

\* -------------------------------------------------------------- toml_config.py
\* a TOML value as written: a basic string, an integer, a boolean, or nothing
\* TOML knows
TomlValue(text) ==
    IF Len(text) >= 2 /\ Head(text) = "\"" /\ text[Len(text)] = "\""
         /\ \A i \in 2..(Len(text) - 1) : text[i] # "\""
    THEN [ok |-> TRUE, type |-> "str", text |-> SubSeq(text, 2, Len(text) - 1)]
    ELSE IF text = <<"t", "r", "u", "e">> \/ text = <<"f", "a", "l", "s", "e">>
    THEN [ok |-> TRUE, type |-> "bool", text |-> text]
    ELSE IF /\ text # <<>>
            /\ \A i \in 1..Len(text) : IsDigit(text[i])
            /\ (Len(text) > 1 => Head(text) # "0")
    THEN [ok |-> TRUE, type |-> "int", text |-> text]
    ELSE [ok |-> FALSE, type |-> "", text |-> <<>>]

\* tomllib.load: the table of a file of key = value lines, or TOMLDecodeError
TomlLoad(lines) ==
    IF \/ \E i \in 1..Len(lines) : ~lines[i].eq \/ ~TomlValue(lines[i].value).ok
       \/ \E i, j \in 1..Len(lines) : i # j /\ lines[i].key = lines[j].key
    THEN [ok |-> FALSE, data |-> <<>>]
    ELSE [ok |-> TRUE,
          data |-> [i \in 1..Len(lines) |->
                       [key |-> lines[i].key, value |-> TomlValue(lines[i].value)]]]

\* the declared fields of the configuration class
Schema == <<[name |-> "host", type |-> "str"], [name |-> "port", type |-> "int"]>>

\* whether the validation takes a value for a field of a type: a str field
\* takes strings only, an int field also a boolean or a string that reads as
\* an integer
Accepts(type, value) ==
    CASE type = "str" -> value.type = "str"
      [] type = "int" -> \/ value.type \in {"int", "bool"}
                         \/ value.type = "str" /\ ParseInt(value.text).ok
      [] OTHER -> FALSE

Lookup(data, key) == {i \in 1..Len(data) : data[i].key = key}

\* the error, if any, of one declared field
FieldErrors(data, field) ==
    IF Lookup(data, field.name) = {} THEN <<[loc |-> field.name, type |-> "missing"]>>
    ELSE LET i == CHOOSE i \in Lookup(data, field.name) : TRUE
         IN IF Accepts(field.type, data[i].value) THEN <<>>
            ELSE <<[loc |-> field.name, type |-> field.type \o "_type"]>>

\* model_config = ConfigDict(extra="forbid"): the errors of the keys no field declares
ExtraAllowed(data) == <<>>

RECURSIVE ExtraForbidden(_)
ExtraForbidden(data) ==
    IF data = <<>> THEN <<>>
    ELSE (IF \E k \in 1..Len(Schema) : Schema[k].name = Head(data).key THEN <<>>
          ELSE <<[loc |-> Head(data).key, type |-> "extra_forbidden"]>>)
         \o ExtraForbidden(Tail(data))

RECURSIVE DeclaredErrors(_, _)
DeclaredErrors(data, fields) ==
    IF fields = <<>> THEN <<>>
    ELSE FieldErrors(data, Head(fields)) \o DeclaredErrors(data, Tail(fields))

\* cls(**data): e.errors() of the ValidationError, empty when the model is built
Validate(data) == DeclaredErrors(data, Schema) \o ExtraForbidden(data)

\* TomlConfig.load
LoadOutcome(file) ==
    LET Err(error, exception, errors) ==
            [op |-> "load", kind |-> "return", ok |-> FALSE, error |-> error,
             exception |-> exception, errors |-> errors, data |-> <<>>]
    IN IF ~file.exists \/ ~file.readable THEN Err("OSError", "OSError", <<>>)
       ELSE LET loaded == TomlLoad(file.text)
            IN IF ~loaded.ok THEN Err("TOMLDecodeError", "TOMLDecodeError", <<>>)
               ELSE IF Validate(loaded.data) # <<>>
                    THEN Err("validation_error", "ValidationError", Validate(loaded.data))
                    ELSE [op |-> "load", kind |-> "return", ok |-> TRUE, error |-> "",
                          exception |-> "", errors |-> <<>>, data |-> loaded.data]

\* ------------------------------------------------------------------- actions
\* no group kept
NoGroup ==
    [held |-> FALSE, g |-> AliasGroupInit(<<>>, <<>>, FALSE, {}), cb |-> NoCallback, calls |-> 0]

\* nothing of process.py, dual_mode_output.py or toml_config.py is under way
OutsideIdle ==
    /\ pid_file = Absent
    /\ tmp_file = Absent
    /\ process = [p \in Pids |-> IF p = SelfPid THEN "alive" ELSE "dead"]
    /\ clock = 0
    /\ pc = "idle"
    /\ call = NoCall
    /\ seen = NotSeen
    /\ config_file = Absent
    /\ result = NoResult

Init ==
    /\ OutsideIdle
    /\ registered_commands = [r \in Routers |-> <<>>]
    /\ registered_groups = <<>>
    /\ group_aliases = <<>>
    /\ registered_callback = NoCallback
    /\ package_name \in BOOLEAN
    /\ version_setup_done = FALSE
    /\ hide_meta_options \in BOOLEAN
    /\ no_args_is_help \in BOOLEAN
    /\ group = NoGroup
    /\ last = Call("init", None, <<>>, <<>>, Ok, <<>>, "")

\* @router.command(name, aliases=aliases) on a handler declaring params
\* (aliases = <<>> stands for aliases=None and aliases=[]: both read back as [])
\* no_args is the no_args_is_help keyword Typer's command() takes; the info
\* keeps it as given (no_args) next to the value the version setup may raise
CommandWith(r, name, params, aliases, no_args) ==
    /\ Len(registered_commands[r]) < (IF r = Root THEN MaxCommands ELSE MaxSubCommands)
    /\ registered_commands' =
          [registered_commands EXCEPT ![r] = Append(@,
              [name |-> name, handler |-> NextHandler(r), params |-> params,
               aliases |-> aliases, sig |-> params, no_args |-> no_args,
               no_args_is_help |-> no_args])]
    /\ last' = [Call("command", name, aliases, <<>>, Ok, <<>>, "") EXCEPT !.router = r]
    /\ UNCHANGED <<registered_groups, group_aliases, registered_callback, package_name,
                   version_setup_done, hide_meta_options, no_args_is_help, group>>
    /\ UNCHANGED outside

\* the registration without that keyword
Command(r, name, params, aliases) == CommandWith(r, name, params, aliases, FALSE)

\* mutant: aliases without a name are let through
AddTyperNeverRaises(name, aliases) == Ok

\* root.add_typer(sub, name=name, aliases=aliases); the parent's add_typer has
\* registered the group before the aliases are looked at
AddTyperOutcome(name, aliases) ==
    IF aliases # <<>> /\ name = None THEN Outcome("ValueError", 0, <<>>) ELSE Ok

AddTyperAliases(d, name, aliases) ==
    IF aliases # <<>> /\ name # None THEN DictSet(d, name, aliases) ELSE d

AddTyper(sub, name, aliases) ==
    /\ Len(registered_groups) < MaxGroups
    /\ registered_groups' = Append(registered_groups, [name |-> name, sub |-> sub])
    /\ group_aliases' = AddTyperAliases(group_aliases, name, aliases)
    /\ last' = Call("add_typer", name, aliases, <<>>, AddTyperOutcome(name, aliases), <<>>, "")
    /\ UNCHANGED <<registered_commands, registered_callback, package_name, version_setup_done,
                   hide_meta_options, no_args_is_help, group>>
    /\ UNCHANGED outside

\* @root.callback() on a function declaring params
Callback(params) ==
    /\ registered_callback' =
          [set |-> TRUE, origin |-> "user", params |-> params,
           sig |-> CallbackSig(package_name, params)]
    /\ last' = Call("callback", None, <<>>, <<>>, Ok, <<>>, "")
    /\ UNCHANGED <<registered_commands, registered_groups, group_aliases, package_name,
                   version_setup_done, hide_meta_options, no_args_is_help, group>>
    /\ UNCHANGED outside

\* an introspection: the call, marked when its property read ran the version
\* setup; a setup that raised ends the call with its ValueError
Introspection(s, op, argv, out, names) ==
    [Call(op, None, <<>>, argv,
          IF s.error THEN Outcome("ValueError", 0, <<>>) ELSE out,
          IF s.error THEN <<>> ELSE names,
          TyperMode(s.cmds, registered_groups, s.cb))
        EXCEPT !.setup = s.done /\ ~version_setup_done]

\* the part every introspection shares: the property read leaves the root as s
Introspect(s) ==
    /\ registered_commands' = [registered_commands EXCEPT ![Root] = s.cmds]
    /\ registered_callback' = s.cb
    /\ version_setup_done' = s.done
    /\ UNCHANGED <<registered_groups, group_aliases, package_name, hide_meta_options,
                   no_args_is_help>>
    /\ UNCHANGED outside

\* typer.main.get_command(root)
GetCommand ==
    LET s == AfterRead
        m == TyperMode(s.cmds, registered_groups, s.cb)
    IN /\ Introspect(s)
       /\ last' = Introspection(s, "get_command", <<>>,
                                IF m = "error" THEN Outcome("RuntimeError", 0, <<>>) ELSE Ok, <<>>)
       /\ UNCHANGED group

\* group = typer.main.get_command(root), kept by the caller; the sole command
\* Typer returns for a single command is no group and is not kept; a call that
\* raises assigns nothing
HoldGroup ==
    LET s == AfterRead
        m == TyperMode(s.cmds, registered_groups, s.cb)
    IN /\ Introspect(s)
       /\ group' = IF s.error \/ m = "error" THEN group
                   ELSE IF m = "multi"
                   THEN [held |-> TRUE, g |-> RootGroup(s.cmds, s.cb), cb |-> s.cb, calls |-> 0]
                   ELSE NoGroup
       /\ last' = Introspection(s, "hold_group", <<>>,
                                IF m = "error" THEN Outcome("RuntimeError", 0, <<>>) ELSE Ok, <<>>)

\* group.main(argv, standalone_mode=False) on the kept group
GroupMain(argv) ==
    /\ group.held
    /\ group.calls < MaxRenders
    /\ LET r == RootGroupRun(group.g, group.cb, argv)
       IN /\ group' = [group EXCEPT !.g = r.g, !.calls = @ + 1]
          /\ last' = Call("group_main", None, <<>>, argv, r.out, <<>>, "multi")
    /\ UNCHANGED <<registered_commands, registered_groups, group_aliases, registered_callback,
                   package_name, version_setup_done, hide_meta_options, no_args_is_help>>
    /\ UNCHANGED outside

\* group.format_commands(click.Context(group), click.HelpFormatter()) on the
\* kept group
GroupFormatCommands ==
    /\ group.held
    /\ last' = Call("format_commands", None, <<>>, <<>>,
                    [Ok EXCEPT !.listing = FormatCommands(group.g)], <<>>, "multi")
    /\ UNCHANGED <<registered_commands, registered_groups, group_aliases, registered_callback,
                   package_name, version_setup_done, hide_meta_options, no_args_is_help, group>>
    /\ UNCHANGED outside

\* typer.main.get_command(root).list_commands(ctx)
ListCommandsOutcome(m) ==
    CASE m = "error" -> Outcome("RuntimeError", 0, <<>>)
      [] m = "single" -> Outcome("AttributeError", 0, <<>>)
      [] OTHER -> Ok

ListCommands ==
    LET s == AfterRead
        m == TyperMode(s.cmds, registered_groups, s.cb)
    IN /\ Introspect(s)
       /\ last' = Introspection(s, "list_commands", <<>>, ListCommandsOutcome(m),
                                IF m = "multi" THEN ListCommandsOf(RootGroup(s.cmds, s.cb))
                                ELSE <<>>)
       /\ UNCHANGED group

\* the sole command takes the root's place: Typer appends the completion
\* options to it, and its help shows them
SoleCommand(out) ==
    IF out.kind = "help" THEN [out EXCEPT !.shown = @ \cup CompletionOptions] ELSE out

\* root(argv): the group, or the sole command, is built anew for the call
InvokeOutcome(s, argv) ==
    LET m == TyperMode(s.cmds, registered_groups, s.cb)
    IN CASE m = "error" -> Outcome("RuntimeError", 0, <<>>)
         [] m = "single" -> SoleCommand(InvokeCommand(CommandFromInfo(s.cmds[1]), argv))
         [] OTHER -> InvokeRootGroup(RootGroup(s.cmds, s.cb), s.cb, argv)

Invoke(argv) ==
    LET s == AfterRead
    IN /\ Introspect(s)
       /\ last' = Introspection(s, "invoke", argv, InvokeOutcome(s, argv), <<>>)
       /\ UNCHANGED group

\* ------------------------------------------------------ process.py: actions
\* whatever else happens to the PID path and to the processes between two calls
Environment(content, statuses) ==
    /\ pc = "idle"
    /\ pid_file' = content
    /\ tmp_file' = Absent
    /\ process' = statuses
    /\ clock' = 0
    /\ call' = NoCall
    /\ seen' = NotSeen
    /\ result' = NoResult
    /\ UNCHANGED <<pc, config_file, router>>

\* read_pid_file, by this process or by any other, at any moment
ReadPidFile ==
    /\ seen' = [read |-> TRUE,
                during |-> pc # "idle" /\ call.op = "write_pid_file",
                content |-> pid_file,
                pid |-> ReadPid(pid_file)]
    /\ UNCHANGED <<pid_file, tmp_file, process, clock, pc, call, result, config_file, router>>

Fs == [pid |-> pid_file, tmp |-> tmp_file]

\* write_pid_file is entered; the temporary file of this call, which mkstemp
\* will name as no file is named yet, is not there
WriteBegin ==
    /\ pc = "idle"
    /\ pc' = "mkdir"
    /\ tmp_file' = Absent
    /\ call' = [op |-> "write_pid_file", previous |-> pid_file]
    /\ seen' = NotSeen
    /\ result' = NoResult
    /\ UNCHANGED <<pid_file, process, clock, config_file, router>>

\* a step of write_pid_file before the try block: done, or its OSError leaves
WriteOutsideTry(at, next, fs) ==
    /\ pc = at
    /\ \/ /\ pc' = next
          /\ pid_file' = fs.pid
          /\ tmp_file' = fs.tmp
          /\ UNCHANGED result
       \/ /\ pc' = "idle"
          /\ result' = [op |-> "write_pid_file", kind |-> "OSError", cleaned |-> TRUE]
          /\ UNCHANGED <<pid_file, tmp_file>>
    /\ UNCHANGED <<process, clock, call, seen, config_file, router>>

\* a step inside the try block: done, or its OSError enters the except block
WriteInsideTry(at, next, fs) ==
    /\ pc = at
    /\ \/ /\ pc' = next
          /\ pid_file' = fs.pid
          /\ tmp_file' = fs.tmp
       \/ /\ pc' = "except"
          /\ UNCHANGED <<pid_file, tmp_file>>
    /\ UNCHANGED <<process, clock, call, seen, result, config_file, router>>

\* pid_path.parent.mkdir(parents=True, exist_ok=True)
WriteMkdir == WriteOutsideTry("mkdir", "mkstemp", Fs)

\* tempfile.mkstemp(dir=pid_path.parent)
WriteMkstemp == WriteOutsideTry("mkstemp", "write", Mkstemp(Fs))

\* os.write(fd, f"{os.getpid()}\n".encode())
WriteOsWrite == WriteInsideTry("write", "close", OsWrite(Fs, FormatPid(SelfPid)))

\* os.close(fd)
WriteClose == WriteInsideTry("close", "replace", Fs)

\* Path(tmp).replace(pid_path), and the return that follows it
WriteReplace ==
    /\ pc = "replace"
    /\ \/ /\ pc' = "idle"
          /\ pid_file' = Replace(Fs).pid
          /\ tmp_file' = Replace(Fs).tmp
          /\ result' = [op |-> "write_pid_file", kind |-> "return", cleaned |-> TRUE]
       \/ /\ pc' = "except"
          /\ UNCHANGED <<pid_file, tmp_file, result>>
    /\ UNCHANGED <<process, clock, call, seen, config_file, router>>

\* except BaseException: close and unlink, an OSError of either suppressed; raise
WriteExcept ==
    /\ pc = "except"
    /\ pc' = "idle"
    /\ \E unlink_ok \in BOOLEAN :
          /\ pid_file' = (IF unlink_ok THEN Unlink(Fs) ELSE Fs).pid
          /\ tmp_file' = (IF unlink_ok THEN Unlink(Fs) ELSE Fs).tmp
          /\ result' = [op |-> "write_pid_file", kind |-> "OSError", cleaned |-> unlink_ok]
    /\ UNCHANGED <<process, clock, call, seen, config_file, router>>

\* is_process_running is entered
IsProcessRunningBegin(command_contains, remove_stale, skip_self) ==
    /\ pc = "idle"
    /\ pc' = "is_process_running"
    /\ call' = [op |-> "is_process_running", command_contains |-> command_contains,
                remove_stale |-> remove_stale, skip_self |-> skip_self]
    /\ result' = NoResult
    /\ UNCHANGED <<pid_file, tmp_file, process, clock, seen, config_file, router>>

\* is_process_running runs and leaves
IsProcessRunning(ps, unlink_ok) ==
    /\ pc = "is_process_running"
    /\ pc' = "idle"
    /\ LET out == IsProcessRunningOutcome(pid_file, process, call, ps, unlink_ok)
       IN /\ pid_file' = out.file
          /\ result' = [op |-> "is_process_running", kind |-> out.kind,
                        value |-> out.value, pid |-> out.pid]
    /\ UNCHANGED <<tmp_file, process, clock, call, seen, config_file, router>>

\* stop_process is entered; the clock counts from here.  exited and exited_at
\* keep whether and when the process was seen to exit while the call ran.
StopBegin(pid, timeout, poll_interval, force_kill) ==
    /\ pc = "idle"
    /\ pc' = "sigterm"
    /\ clock' = 0
    /\ call' = [op |-> "stop_process", pid |-> pid, timeout |-> timeout,
                poll_interval |-> poll_interval, force_kill |-> force_kill,
                deadline |-> 0, killed |-> FALSE, exited |-> FALSE, exited_at |-> 0]
    /\ result' = NoResult
    /\ UNCHANGED <<pid_file, tmp_file, process, seen, config_file, router>>

StopReturn(value) ==
    /\ pc' = "idle"
    /\ result' = [op |-> "stop_process", kind |-> "return", value |-> value]

\* os.kill(pid, signal.SIGTERM), then deadline = time.monotonic() + timeout
StopSigterm ==
    /\ pc = "sigterm"
    /\ CASE KillZero(process[call.pid]) = "ProcessLookupError" ->
              StopReturn(TRUE) /\ UNCHANGED call
         [] KillZero(process[call.pid]) = "PermissionError" ->
              /\ pc' = "idle"
              /\ result' = [op |-> "stop_process", kind |-> "PermissionError", value |-> FALSE]
              /\ UNCHANGED call
         [] OTHER ->
              /\ pc' = "while"
              /\ call' = [call EXCEPT !.deadline = clock + call.timeout]
              /\ UNCHANGED result
    /\ UNCHANGED <<pid_file, tmp_file, process, clock, seen, config_file, router>>

\* while time.monotonic() < deadline
StopWhile ==
    /\ pc = "while"
    /\ pc' = IF clock < call.deadline THEN "poll" ELSE "after"
    /\ UNCHANGED <<pid_file, tmp_file, process, clock, call, seen, result, config_file, router>>

\* os.kill(pid, 0) in the loop
StopPoll ==
    /\ pc = "poll"
    /\ IF KillZero(process[call.pid]) = "ProcessLookupError"
       THEN StopReturn(TRUE)
       ELSE pc' = "sleep" /\ UNCHANGED result
    /\ UNCHANGED <<pid_file, tmp_file, process, clock, call, seen, config_file, router>>

\* time.sleep(poll_interval)
StopSleep ==
    /\ pc = "sleep"
    /\ pc' = "while"
    /\ clock' = clock + call.poll_interval
    /\ UNCHANGED <<pid_file, tmp_file, process, call, seen, result, config_file, router>>

\* after the loop: SIGKILL and True with force_kill, False without
StopAfter ==
    /\ pc = "after"
    /\ IF call.force_kill
       THEN /\ process' = [process EXCEPT ![call.pid] = "dead"]
            /\ call' = [call EXCEPT !.killed = TRUE]
            /\ StopReturn(TRUE)
       ELSE /\ StopReturn(FALSE)
            /\ UNCHANGED <<process, call>>
    /\ UNCHANGED <<pid_file, tmp_file, clock, seen, config_file, router>>

StopSteps == {"sigterm", "while", "poll", "sleep", "after"}

\* the process being stopped exits, on the SIGTERM or for a reason of its own
ProcessExits ==
    /\ pc \in StopSteps
    /\ process[call.pid] = "alive"
    /\ process' = [process EXCEPT ![call.pid] = "dead"]
    /\ call' = [call EXCEPT !.exited = TRUE, !.exited_at = clock]
    /\ UNCHANGED <<pid_file, tmp_file, clock, pc, seen, result, config_file, router>>

\* time passes between two statements of stop_process
Elapse ==
    /\ pc \in StopSteps
    /\ clock < MaxClock
    /\ clock' = clock + 1
    /\ UNCHANGED <<pid_file, tmp_file, process, pc, call, seen, result, config_file, router>>

\* DualModeOutput(json_mode=...).print_error_and_exit(code, message)
PrintErrorAndExit(json_mode, code, message) ==
    /\ pc = "idle"
    /\ pc' = "exited"
    /\ call' = [op |-> "print_error_and_exit", json_mode |-> json_mode,
                code |-> code, message |-> message]
    /\ result' = PrintErrorAndExitOutcome(json_mode, code, message)
    /\ UNCHANGED <<pid_file, tmp_file, process, clock, seen, config_file, router>>

\* the configuration path gets a file, or someone adds a line to the file
PutConfig(file) ==
    /\ pc = "idle"
    /\ config_file = Absent
    /\ config_file' = file
    /\ call' = NoCall
    /\ result' = NoResult
    /\ UNCHANGED <<pid_file, tmp_file, process, clock, pc, seen, router>>

AddLine(line) ==
    /\ pc = "idle"
    /\ config_file.exists
    /\ config_file.readable
    /\ Len(config_file.text) < MaxLines
    /\ config_file' = File(Append(config_file.text, line))
    /\ call' = NoCall
    /\ result' = NoResult
    /\ UNCHANGED <<pid_file, tmp_file, process, clock, pc, seen, router>>

\* SampleConfig.load(path)
Load ==
    /\ pc = "idle"
    /\ call' = [op |-> "load", file |-> config_file]
    /\ result' = LoadOutcome(config_file)
    /\ UNCHANGED <<pid_file, tmp_file, process, clock, pc, seen, config_file, router>>

\* ------------------------------------------------------------------- inputs
CommandNames == {"a", "b"}
AliasLists == {<<>>, <<"x", "y">>, <<"g">>}
SubCommandNames == {"run"}
SubAliasLists == {<<>>, <<"r">>}
GroupNames == {None, "g"}
GroupAliasLists == {<<>>, <<"x">>}
CallbackParams == {<<"debug">>}
Tokens == {"a", "b", "x", "y", "g", "r"}

\* ------------------------------------------------- PID files and liveness
\* what the PID path may hold: the files of TestReadPidFile, and a few more
PidFileContents ==
    {Absent, Unreadable,
     File(<<>>),
     File(<<"1", "2", "3", "4", "5", "\n">>),
     File(<<"1", "2", "3", "4", "5">>),
     File(<<" ", " ", "4", "2", " ", " ", "\n">>),
     File(<<"n", "o", "t", "\n">>),
     File(<<"-", "1", "\n">>),
     File(<<"0", "\n">>),
     File(<<"+", "7">>),
     File(<<"0", "0", "7", "\n">>),
     File(<<"4", " ", "2">>),
     File(<<"4", "2", "x">>),
     File(<<"-">>)}

ProcessStatuses == {"alive", "dead", "foreign"}
ProcessTables == {t \in [Pids -> ProcessStatuses] : t[SelfPid] = "alive"}

Needles == {NoNeedle, Needle(<<"m", "y">>), Needle(<<>>)}
PsRuns == {[raised |-> TRUE, stdout |-> <<>>],
           [raised |-> FALSE, stdout |-> <<>>],
           [raised |-> FALSE, stdout |-> <<"/", "m", "y", "\n">>],
           [raised |-> FALSE, stdout |-> <<"y", "m", "\n">>]}

NextPidFile ==
    \/ \E content \in PidFileContents, statuses \in ProcessTables :
          Environment(content, statuses)
    \/ ReadPidFile
    \/ WriteBegin
    \/ WriteMkdir
    \/ WriteMkstemp
    \/ WriteOsWrite
    \/ WriteClose
    \/ WriteReplace
    \/ WriteExcept
    \/ \E command_contains \in Needles, remove_stale \in BOOLEAN, skip_self \in BOOLEAN :
          IsProcessRunningBegin(command_contains, remove_stale, skip_self)
    \/ \E ps \in PsRuns, unlink_ok \in BOOLEAN : IsProcessRunning(ps, unlink_ok)


\* ------------------------------------------------------ stopping a process
StopPids == Pids \ {SelfPid}

NextStop ==
    \/ \E content \in {Absent}, statuses \in ProcessTables : Environment(content, statuses)
    \/ \E pid \in StopPids, timeout \in 0..MaxTimeout, poll_interval \in 1..MaxPollInterval,
          force_kill \in BOOLEAN : StopBegin(pid, timeout, poll_interval, force_kill)
    \/ StopSigterm
    \/ StopWhile
    \/ StopPoll
    \/ StopSleep
    \/ StopAfter
    \/ ProcessExits
    \/ Elapse


\* ------------------------------------------------------------ error output
RECURSIVE Texts(_, _)
Texts(chars, n) ==
    IF n = 0 THEN {<<>>}
    ELSE Texts(chars, n - 1) \cup {Append(t, c) : t \in Texts(chars, n - 1), c \in chars}

ErrorCodes == Texts({"N", "_"}, MaxText)
ErrorMessages == Texts({"i", " ", "\"", "\\", "\n"}, MaxText)

NextOutput ==
    \E json_mode \in BOOLEAN, code \in ErrorCodes, message \in ErrorMessages :
       PrintErrorAndExit(json_mode, code, message)


\* ------------------------------------------------------ configuration files
TomlLines ==
    {[key |-> "host", eq |-> TRUE, value |-> <<"\"", "l", "\"">>],
     [key |-> "host", eq |-> TRUE, value |-> <<"8">>],
     [key |-> "port", eq |-> TRUE, value |-> <<"8", "0">>],
     [key |-> "port", eq |-> TRUE, value |-> <<"\"", "n", "\"">>],
     [key |-> "port", eq |-> TRUE, value |-> <<"\"", "8", "\"">>],
     [key |-> "port", eq |-> TRUE, value |-> <<"0", "8">>],
     [key |-> "extra", eq |-> TRUE, value |-> <<"t", "r", "u", "e">>],
     [key |-> "[broken", eq |-> FALSE, value |-> <<>>]}

NextLoad ==
    \/ \E file \in {Unreadable, File(<<>>)} : PutConfig(file)
    \/ \E line \in TomlLines : AddLine(line)
    \/ Load


\* ------------------------------------------- the router and the utilities
Next ==
    \/ \E name \in CommandNames, aliases \in AliasLists : Command(Root, name, <<>>, aliases)
    \/ \E r \in {Sub, Sub2}, name \in SubCommandNames, aliases \in SubAliasLists :
          Command(r, name, <<>>, aliases)
    \/ \E r \in {Sub, Sub2}, name \in GroupNames \cup {"h"}, aliases \in GroupAliasLists :
          AddTyper(r, name, aliases)
    \/ \E params \in CallbackParams : Callback(params)
    \/ GetCommand
    \/ ListCommands
    \/ HoldGroup
    \/ \E argv \in {<<"--help">>, <<"--help-all">>} : GroupMain(argv)
    \/ GroupFormatCommands
    \/ \E argv \in {<<>>} \cup {<<t>> : t \in Tokens \cup OptionTokens}
                    \cup {<<t, u>> : t \in {"g", "h", "x"}, u \in {"run", "r"}} : Invoke(argv)
    \/ NextPidFile
    \/ NextStop
    \/ NextOutput
    \/ NextLoad

Spec == Init /\ [][Next]_vars

\* --------------------------- alias tables of a router without package name
InitAlias ==
    Init /\ package_name = FALSE /\ hide_meta_options = TRUE /\ no_args_is_help = TRUE

\* the registrations on the root and on the sub-router it mounts
Registrations ==
    \/ \E name \in CommandNames, aliases \in AliasLists : Command(Root, name, <<>>, aliases)
    \/ Command(Sub, "run", <<>>, <<"r">>)
    \/ \E na \in {<<None, <<"x">>>>, <<"g", <<>>>>, <<"g", <<"x">>>>} : AddTyper(Sub, na[1], na[2])

\* registrations and dispatch of one token
NextAlias ==
    \/ Registrations
    \/ \E t \in Tokens : Invoke(<<t>>)

SpecAlias == InitAlias /\ [][NextAlias]_vars

\* registrations and listing
NextList ==
    \/ Registrations
    \/ ListCommands

SpecList == InitAlias /\ [][NextList]_vars

\* registrations and the construction of the group and its tables
NextTables ==
    \/ Registrations
    \/ GetCommand

SpecTables == InitAlias /\ [][NextTables]_vars

\* ------------------------------------------ mounted sub-routers' commands
Mounts ==
    {<<Sub, "g", <<"x", "p">>>>, <<Sub, "g", <<>>>>, <<Sub, None, <<>>>>,
     <<Sub2, "h", <<"x">>>>, <<Sub2, "g", <<"p">>>>}

NextGroup ==
    \/ Command(Root, "a", <<>>, <<"g">>)
    \/ \E aliases \in SubAliasLists : Command(Sub, "run", <<>>, aliases)
    \/ Command(Sub2, "run", <<>>, <<>>)
    \/ \E m \in Mounts : AddTyper(m[1], m[2], m[3])
    \/ \E t \in {"g", "h", "x", "p"}, u \in {"run", "r"} : Invoke(<<t, u>>)

SpecGroup == InitAlias /\ [][NextGroup]_vars

\* ------------------------------- version flag, callbacks and parameters
HandlerParams == {<<>>, <<"name">>}
VersionCallbackParams == {<<"debug">>, <<VersionParam, "debug">>}
VersionArgvs ==
    {<<VersionFlag>>, <<ShortVersionFlag>>, <<VersionFlag, "a">>, <<"a">>, <<"a", "v">>,
     <<"v">>, <<"v", ShortVersionFlag>>, <<"--debug", "a">>, <<"--debug", VersionFlag, "a", "v">>}

NextVersion ==
    \/ \E name \in CommandNames, params \in HandlerParams : Command(Root, name, params, <<>>)
    \/ \E params \in VersionCallbackParams : Callback(params)
    \/ GetCommand
    \/ \E argv \in VersionArgvs : Invoke(argv)

SpecVersion == Init /\ [][NextVersion]_vars

\* ------------------------------------------ mode resolution, version flag
NextMode ==
    \/ \E name \in CommandNames : Command(Root, name, <<>>, <<>>)
    \/ AddTyper(Sub, "g", <<>>)
    \/ \E params \in CallbackParams : Callback(params)
    \/ GetCommand
    \/ ListCommands
    \/ \E argv \in {<<>>, <<"a">>, <<VersionFlag>>, <<VersionFlag, "a">>} : Invoke(argv)

SpecMode == Init /\ [][NextMode]_vars

\* ------------------------------------ a sole command called without arguments
NoArgsParams == {<<>>, <<"name">>, <<"debug">>}

NextNoArgs ==
    \/ \E name \in CommandNames, params \in NoArgsParams, no_args \in BOOLEAN :
          CommandWith(Root, name, params, <<>>, no_args)
    \/ GetCommand
    \/ \E argv \in {<<>>, <<"v">>, <<"--debug">>} : Invoke(argv)

InitNoArgs == Init /\ hide_meta_options = TRUE

SpecNoArgs == InitNoArgs /\ [][NextNoArgs]_vars

\* ------------------------------- a sole command that declares _version itself
InjectParams == {<<>>, <<VersionParam>>, <<"name", VersionParam>>}

NextInject ==
    \/ \E name \in CommandNames, params \in InjectParams : Command(Root, name, params, <<>>)
    \/ \E params \in VersionCallbackParams : Callback(params)
    \/ GetCommand
    \/ \E argv \in {<<>>, <<"v">>, <<VersionFlag>>} : Invoke(argv)

SpecInject == InitNoArgs /\ [][NextInject]_vars

\* ----------------------------------- the listing next to the dispatch of a token
NextDisplay ==
    \/ Registrations
    \/ Invoke(<<"--help">>)
    \/ \E t \in Tokens : Invoke(<<t>>)

SpecDisplay == InitAlias /\ [][NextDisplay]_vars

\* ------------------------------------------------ the utilities on their own
SpecPidFile == InitAlias /\ [][NextPidFile]_vars
SpecStop == InitAlias /\ [][NextStop]_vars
SpecOutput == InitAlias /\ [][NextOutput]_vars
SpecLoad == InitAlias /\ [][NextLoad]_vars

\* ------------------------------------------ help rendering, meta options
HelpArgvs == {<<"--help">>, <<"--help-all">>}

\* registrations, help through the router (which builds its group anew for
\* every call) and on a group the caller kept
NextHelp ==
    \/ Command(Root, "a", <<>>, <<"x", "y">>)
    \/ Command(Root, "b", <<>>, <<>>)
    \/ Command(Sub, "run", <<>>, <<"r">>)
    \/ AddTyper(Sub, None, <<>>)
    \/ HoldGroup
    \/ \E argv \in HelpArgvs : GroupMain(argv)
    \/ GroupFormatCommands
    \/ \E argv \in HelpArgvs : Invoke(argv)

SpecHelp == Init /\ [][NextHelp]_vars

\* ------------------------------------------------- vocabulary of the claims
RootCommands == registered_commands[Root]

\* the strings a registered command answers to
TokensOf(info) == {info.name} \cup Range(info.aliases)

\* what unnamed sub-routers merge into the root: their commands' names and aliases
MergedTokens ==
    UNION {Range(DictKeys(SubGroup(registered_groups[j].sub).commands)) :
             j \in {k \in 1..Len(registered_groups) : registered_groups[k].name = None}}

\* the strings the root's other registrations use: the other commands' names and
\* aliases, the sub-routers' names and recorded aliases, and what an unnamed
\* sub-router merges into the root
OtherTokens(i) ==
    UNION {TokensOf(RootCommands[j]) : j \in (1..Len(RootCommands)) \ {i}}
    \cup {registered_groups[j].name : j \in 1..Len(registered_groups)}
    \cup Range(DictKeys(group_aliases))
    \cup UNION {Range(group_aliases[j].v) : j \in 1..Len(group_aliases)}
    \cup MergedTokens

\* ---------------------------------------------------------------------- C1
\* C1 as stated: for every command registered with aliases on the root,
\* dispatching its canonical name or any of its aliases runs its handler.
C1_AliasesDispatchHandler ==
    (last.op = "invoke" /\ Len(last.argv) = 1) =>
        \A i \in 1..Len(RootCommands) :
            (RootCommands[i].aliases # <<>> /\ last.argv[1] \in TokensOf(RootCommands[i]))
                => (last.kind = "handler" /\ last.handler = RootCommands[i].handler)

\* C1 amended: the same, for a router that dispatches by subcommand and a
\* command whose name and aliases no other registration of the router uses.
C1_UncontestedAliasesDispatchHandler ==
    (last.op = "invoke" /\ Len(last.argv) = 1 /\ last.mode = "multi") =>
        \A i \in 1..Len(RootCommands) :
            (/\ RootCommands[i].aliases # <<>>
             /\ last.argv[1] \in TokensOf(RootCommands[i])
             /\ TokensOf(RootCommands[i]) \cap OtherTokens(i) = {})
                => (last.kind = "handler" /\ last.handler = RootCommands[i].handler
                    /\ last.args = <<>>)

\* an alias of an uncontested command was dispatched, next to another command
C1_Witness ==
    /\ last.op = "invoke" /\ last.mode = "multi" /\ Len(last.argv) = 1
    /\ Len(RootCommands) = 2
    /\ \E i \in 1..Len(RootCommands) :
          /\ last.argv[1] \in Range(RootCommands[i].aliases)
          /\ last.argv[1] # RootCommands[i].name
          /\ TokensOf(RootCommands[i]) \cap OtherTokens(i) = {}
          /\ last.handler = RootCommands[i].handler

\* ---------------------------------------------------------------------- C2
\* what the last call returned, and what dispatching argv would return now
LastOutcome ==
    [Outcome(last.kind, last.handler, last.args)
        EXCEPT !.cb = last.cb, !.cbargs = last.cbargs, !.output = last.output]
Dispatching(argv) == InvokeOutcome(AfterRead, argv)

\* the strings that registrations other than the mount recorded as entry j of
\* _group_aliases use; a name mounted more than once is used by another mount
GroupOtherTokens(j) ==
    UNION {TokensOf(RootCommands[i]) : i \in 1..Len(RootCommands)}
    \cup {registered_groups[k].name :
            k \in {m \in 1..Len(registered_groups) :
                     \/ registered_groups[m].name # group_aliases[j].k
                     \/ \E n \in (1..Len(registered_groups)) \ {m} :
                           registered_groups[n].name = group_aliases[j].k}}
    \cup UNION {{group_aliases[k].k} \cup Range(group_aliases[k].v) :
                  k \in (1..Len(group_aliases)) \ {j}}
    \cup MergedTokens

\* C2 as stated: for every sub-router mounted under a name with aliases,
\* dispatching [alias, sub-command] gives the result of [name, sub-command],
\* also when the sub-command is addressed by its own alias.
C2_GroupAliasAsName ==
    (last.op = "invoke" /\ Len(last.argv) = 2) =>
        \A j \in 1..Len(group_aliases) :
            last.argv[1] \in Range(group_aliases[j].v)
                => LastOutcome = Dispatching(<<group_aliases[j].k, last.argv[2]>>)

\* C2 amended: the same, for a mount whose name and aliases no other
\* registration of the router uses.
C2_UncontestedGroupAliasAsName ==
    (last.op = "invoke" /\ Len(last.argv) = 2) =>
        \A j \in 1..Len(group_aliases) :
            (/\ last.argv[1] \in Range(group_aliases[j].v)
             /\ ({group_aliases[j].k} \cup Range(group_aliases[j].v)) \cap GroupOtherTokens(j) = {})
                => LastOutcome = Dispatching(<<group_aliases[j].k, last.argv[2]>>)

\* [alias of an uncontested mount, alias of its command] ran the command,
\* next to a second mount
C2_Witness ==
    /\ last.op = "invoke" /\ last.argv = <<"x", "r">> /\ last.kind = "handler"
    /\ Len(registered_groups) = 2
    /\ \E j \in 1..Len(group_aliases) :
          /\ "x" \in Range(group_aliases[j].v)
          /\ ({group_aliases[j].k} \cup Range(group_aliases[j].v)) \cap GroupOtherTokens(j) = {}

\* ---------------------------------------------------------------------- C3
\* the command mapping Typer hands to the root's group, and the group built
BuiltCommands == TyperCommands(RootCommands, registered_groups)
Built == RootGroup(RootCommands, registered_callback)

\* every alias a registration of the root carries
RegisteredAliases ==
    UNION {Range(RootCommands[i].aliases) : i \in 1..Len(RootCommands)}
    \cup UNION {Range(group_aliases[j].v) : j \in 1..Len(group_aliases)}

\* the aliases of the commands the mapping holds (a command replaced by a later
\* registration of its name is not among them) and of the aliased mounts
AliasesInEffect ==
    LET cmds == BuiltCommands
    IN UNION {Range(cmds[i].v.aliases) : i \in 1..Len(cmds)}
    \cup UNION {Range(group_aliases[j].v) : j \in 1..Len(group_aliases)}

\* C3 as stated: list_commands returns no string that was registered as an alias.
C3_ListHasNoRegisteredAlias ==
    (last.op = "list_commands" /\ last.kind = "ok")
        => Range(last.names) \cap RegisteredAliases = {}

\* C3 amended: list_commands returns no alias of a command or sub-router that
\* the command mapping holds.
C3_ListHasNoAliasInEffect ==
    (last.op = "list_commands" /\ last.kind = "ok")
        => Range(last.names) \cap AliasesInEffect = {}

\* a listing of two names next to aliases in effect, one of them a name as well
C3_Witness ==
    /\ last.op = "list_commands" /\ last.kind = "ok"
    /\ Len(last.names) = 2
    /\ AliasesInEffect \cap Range(DictKeys(BuiltCommands)) # {}

\* ---------------------------------------------------------------------- C4
\* the canonical names the root's registrations give it: its commands' names,
\* its mounts' names, and for an unnamed mount the names it merges
RECURSIVE MountNames(_)
MountNames(i) ==
    IF i > Len(registered_groups) THEN <<>>
    ELSE (IF registered_groups[i].name # None THEN <<registered_groups[i].name>>
          ELSE ListCommandsOf(SubGroup(registered_groups[i].sub))) \o MountNames(i + 1)

CanonicalNames == [i \in 1..Len(RootCommands) |-> RootCommands[i].name] \o MountNames(1)

\* a sequence without its repetitions, each element at its first place
RECURSIVE FirstPlaces(_)
FirstPlaces(q) ==
    IF q = <<>> THEN <<>>
    ELSE LET front == FirstPlaces(SubSeq(q, 1, Len(q) - 1))
         IN IF q[Len(q)] \in Range(front) THEN front ELSE Append(front, q[Len(q)])

\* C4 as stated: the listing is exactly the canonical names, every one present
\* and nothing else, in registration order (TyperPlus keeps commands and mounts
\* in two lists, so the order between the two kinds is not even recorded).
C4_ListIsCanonicalNames ==
    (last.op = "list_commands" /\ last.kind = "ok")
        => last.names = FirstPlaces(CanonicalNames)

\* C4 amended: the listing is the canonical names that are not an alias in
\* effect, each once at its first place, commands before mounts.
C4_ListIsCanonicalNamesNotAliased ==
    (last.op = "list_commands" /\ last.kind = "ok")
        => LET NotAlias(n) == n \notin AliasesInEffect
           IN last.names = SelectSeq(FirstPlaces(CanonicalNames), NotAlias)

\* two commands and a mount were listed
C4_Witness ==
    /\ last.op = "list_commands" /\ Len(last.names) = 3
    /\ Len(RootCommands) = 2 /\ registered_groups # <<>>


\* ---------------------------------------------------------------------- C5
\* the canonical names whose registrations carry the alias a
Owners(a) ==
    {RootCommands[i].name : i \in {n \in 1..Len(RootCommands) : a \in Range(RootCommands[n].aliases)}}
    \cup {group_aliases[j].k : j \in {n \in 1..Len(group_aliases) : a \in Range(group_aliases[n].v)}}

Writers ==
    LET cmds == BuiltCommands
        Aliased(w) == w.v # <<>>
    IN SelectSeq([i \in 1..Len(cmds) |-> [k |-> cmds[i].k, v |-> cmds[i].v.aliases]], Aliased)
       \o group_aliases

\* the canonical name of the last of the writes w that carries the alias a
LastWriter(w, a) ==
    LET i == CHOOSE n \in 1..Len(w) :
                 /\ a \in Range(w[n].v)
                 /\ \A m \in (n + 1)..Len(w) : a \notin Range(w[m].v)
    IN w[i].k

GroupAliasSet == UNION {Range(group_aliases[j].v) : j \in 1..Len(group_aliases)}

Multi == TyperMode(AfterRead.cmds, registered_groups, AfterRead.cb) = "multi"

\* C6 as stated: right after a registration that gives an alias to a second
\* canonical name, no error was raised and the alias resolves to the name just
\* registered; for a command, dispatching the alias runs its handler.
C6_LaterRegistrationWins ==
    (last.op \in {"command", "add_typer"} /\ last.router = Root /\ last.name # None)
        => \A a \in Range(last.aliases) :
              Owners(a) \ {last.name} # {}
                 => /\ last.kind = "ok"
                    /\ Resolve(Built, a) = last.name
                    /\ last.op = "command"
                          => Dispatching(<<a>>)
                                = Outcome("handler", RootCommands[Len(RootCommands)].handler, <<>>)

\* C6 amended: no error is raised and the last write into the table wins; the
\* commands' aliases are written in the order of the command mapping, the
\* mounts' aliases after them. A command registered under a new name wins over
\* the earlier commands only, a mount under a newly aliased name over all.
C6_LastWriteWins ==
    LET built == Built
        writers == Writers
        inEffect == AliasesInEffect
        multi == Multi
    IN /\ \A a \in inEffect :
             /\ Resolve(built, a) = LastWriter(writers, a)
             /\ (multi /\ LastWriter(writers, a) \notin inEffect)
                   => Dispatching(<<a>>) = Dispatching(<<LastWriter(writers, a)>>)
       /\ (last.op \in {"command", "add_typer"} /\ last.router = Root /\ last.name # None)
             => /\ last.kind = "ok"
                /\ \A a \in Range(last.aliases) :
                      /\ ( /\ last.op = "command"
                           /\ a \notin GroupAliasSet \cup MergedTokens
                           /\ last.name \notin OtherTokens(Len(RootCommands)) )
                            => Resolve(built, a) = last.name
                      /\ ( /\ last.op = "add_typer"
                           /\ group_aliases[Len(group_aliases)].k = last.name )
                            => Resolve(built, a) = last.name

\* a command was just registered with an alias a mount already has, and the
\* alias still resolves to the mount
C6_Witness ==
    /\ last.op = "command" /\ last.router = Root
    /\ \E a \in Range(last.aliases) :
          /\ a \in GroupAliasSet
          /\ Resolve(Built, a) # last.name
          /\ Resolve(Built, a) = LastWriter(Writers, a)

\* ---------------------------------------------------------------------- C7
\* C7: add_typer with a non-empty alias list and no name ends in ValueError,
\* whatever the router holds.
C7_AliasesWithoutNameRaise ==
    (last.op = "add_typer" /\ last.aliases # <<>> /\ last.name = None)
        => last.kind = "ValueError"

\* the call was refused on a router that holds a command and an aliased mount
C7_Witness ==
    /\ last.op = "add_typer" /\ last.kind = "ValueError"
    /\ RootCommands # <<>> /\ group_aliases # <<>>

\* ---------------------------------------------------------------------- C8
\* C8: the read that resolves the mode for the first time resolves to
\* single-command mode exactly when the router has one command, no mount and no
\* callback registered by the user, and to multi-command mode otherwise (a
\* router with nothing at all and no package name resolves to no mode: Typer
\* raises RuntimeError).
C8_SingleIffOneCommandOnly ==
    [][ ( /\ ~version_setup_done
          /\ last'.op \in Introspections
          /\ last'.mode # "error" )
        => /\ last'.mode \in {"single", "multi"}
           /\ last'.mode = "single"
                 <=> ( /\ Len(RootCommands) = 1
                       /\ registered_groups = <<>>
                       /\ ~registered_callback.set ) ]_vars

\* a router with a package name resolved to single-command mode
C8_Witness ==
    /\ last.op \in Introspections /\ last.setup
    /\ last.mode = "single" /\ package_name

\* ---------------------------------------------------------------------- C9
\* how many times the version parameter occurs in a signature
Occurrences(sig) == Cardinality({i \in 1..Len(sig) : sig[i] = VersionParam})

\* C9: an introspection that follows an introspection resolves the same mode,
\* does not run the version setup and leaves the router as it was, with the
\* version parameter at most once in every signature.
C9_ResolutionIsOneShot ==
    [][ (last.op \in Introspections /\ last'.op \in Introspections)
        => /\ last'.mode = last.mode
           /\ ~last'.setup
           /\ registered_commands' = registered_commands
           /\ registered_callback' = registered_callback
           /\ version_setup_done' = version_setup_done
           /\ Occurrences(registered_callback'.sig) <= 1
           /\ \A i \in 1..Len(RootCommands') : Occurrences(RootCommands'[i].sig) <= 1 ]_vars

\* a later read of a router with a package name: the setup had run before
C9_Witness ==
    /\ last.op \in Introspections /\ ~last.setup
    /\ package_name /\ version_setup_done
    /\ last.mode = "single"
    /\ Occurrences(RootCommands[1].sig) = 1

\* --------------------------------------------------------------------- C10
\* the router as the step leaves it
Resolved == [cmds |-> RootCommands', cb |-> registered_callback', done |-> version_setup_done']

\* C10: the read that runs the version setup of a router with a package name
\* leaves the version parameter on the sole command in single-command mode and
\* on the router's callback in multi-command mode, where the flag is accepted
\* alone and in front of a subcommand.
C10_VersionFlagAtInvokedLevel ==
    [][ (package_name /\ ~version_setup_done /\ version_setup_done')
        => /\ last'.mode \in {"single", "multi"}
           /\ last'.mode = "single"
                 => /\ VersionParam \in Range(RootCommands'[1].sig)
                    /\ ~registered_callback'.set
                    /\ InvokeOutcome(Resolved, <<VersionFlag>>).kind = "version"
           /\ last'.mode = "multi"
                 => /\ VersionParam \in Range(registered_callback'.sig)
                    /\ \A i \in 1..Len(RootCommands') :
                          VersionParam \notin Range(RootCommands'[i].sig)
                    /\ InvokeOutcome(Resolved, <<VersionFlag>>).kind = "version"
                    /\ InvokeOutcome(Resolved, <<VersionFlag, "a">>).kind = "version" ]_vars

\* the flag was given in front of a subcommand of a router in multi-command
\* mode, on the read that ran the setup, and the version was printed
C10_Witness ==
    /\ last.op = "invoke" /\ last.setup /\ last.mode = "multi"
    /\ last.argv = <<VersionFlag, "a">> /\ last.kind = "version"
    /\ Len(RootCommands) = 2


\* --------------------------------------------------------------------- C11
\* the exit code of an invocation: typer.Exit and a normal return give 0, a
\* usage error 2, an exception that escapes 1
ExitCode(kind) ==
    CASE kind \in {"ok", "handler", "help", "version", "user_version"} -> 0
      [] kind = "usage_error" -> 2
      [] OTHER -> 1

\* no command or sub-router was added after the version setup ran for a sole
\* command (the setup runs once, for the shape the router then has)
ShapeKept ==
    version_setup_done
        => (registered_callback.set \/ (Len(RootCommands) = 1 /\ registered_groups = <<>>))

\* the callback the caller registered declares the version parameter itself
CallerDeclaresVersion ==
    registered_callback.origin = "user" /\ VersionParam \in Range(registered_callback.params)

\* the invocation gives the version flag at the top level: anywhere among the
\* sole command's arguments, in front of the subcommand for a group
SuppliesVersionFlag(argv, mode) ==
    IF mode = "single"
    THEN Range(argv) \cap VersionFlags # {} /\ Range(argv) \cap OptionTokens \subseteq VersionFlags
    ELSE LeadingOptions(argv) # <<>> /\ Range(LeadingOptions(argv)) \subseteq VersionFlags

\* the last registered command of the root named n (0 when there is none)
LastNamed(n) ==
    LET I == {i \in 1..Len(RootCommands) : RootCommands[i].name = n}
    IN IF I = {} THEN 0 ELSE CHOOSE i \in I : \A j \in I : j <= i

\* C11: on a router with a package name, an invocation that gives the version
\* flag prints "P: <version>", exits with code 0 and runs neither handler nor
\* callback; an invocation without options runs the handler it addresses with
\* the arguments given and prints no version; the version callback called with
\* a false value prints nothing and does not exit.
C11_VersionFlagPrintsAndExits ==
    /\ VersionCallback(FALSE) = [output |-> <<>>, exit |-> FALSE]
    /\ ( /\ last.op = "invoke" /\ package_name /\ ShapeKept
         /\ ~CallerDeclaresVersion /\ last.mode # "error" )
        => /\ SuppliesVersionFlag(last.argv, last.mode)
              => /\ last.kind = "version"
                 /\ last.output = <<PackageName, ": ", PackageVersion>>
                 /\ ExitCode(last.kind) = 0
                 /\ last.handler = 0 /\ last.cb = ""
           /\ Range(last.argv) \cap OptionTokens = {}
              => /\ last.kind # "version" /\ last.output = <<>>
                 /\ (last.mode = "single" /\ Len(last.argv) = Len(RootCommands[1].params))
                       => /\ last.kind = "handler"
                          /\ last.handler = RootCommands[1].handler
                          /\ last.args = Bind(RootCommands[1].params, <<>>, last.argv)
                 /\ ( /\ last.mode = "multi" /\ last.argv # <<>>
                      /\ LastNamed(last.argv[1]) # 0
                      /\ Len(last.argv) - 1 = Len(RootCommands[LastNamed(last.argv[1])].params) )
                       => /\ last.kind = "handler"
                          /\ last.handler = RootCommands[LastNamed(last.argv[1])].handler
                          /\ last.args = Bind(RootCommands[LastNamed(last.argv[1])].params,
                                              <<>>, Tail(last.argv))

\* the short flag was given after the argument of a sole command that requires
\* one: the version was printed and the handler did not run
C11_Witness ==
    /\ last.op = "invoke" /\ package_name /\ last.mode = "single"
    /\ last.argv = <<"v", ShortVersionFlag>>
    /\ RootCommands[1].params = <<"name">>
    /\ last.kind = "version" /\ last.handler = 0


\* --------------------------------------------------------------------- C12
\* C12: on a router with a package name whose caller registered a callback
\* that does not declare _version, whenever the callback was registered, the
\* callback exposes its parameters followed by _version, the version flag
\* (long or short, alone or in front of a subcommand) prints the version, and
\* an invocation that reaches a handler has run the callback with exactly the
\* parameters it declared.
C12_VersionFlagWithCustomCallback ==
    ( /\ package_name
      /\ registered_callback.origin = "user"
      /\ VersionParam \notin Range(registered_callback.params) )
        => /\ registered_callback.sig = Append(registered_callback.params, VersionParam)
           /\ \A argv \in {<<VersionFlag>>, <<ShortVersionFlag>>, <<VersionFlag, "a">>,
                           <<"--debug", ShortVersionFlag>>} :
                 /\ Dispatching(argv).kind = "version"
                 /\ Dispatching(argv).output = <<PackageName, ": ", PackageVersion>>
           /\ (last.op = "invoke" /\ last.kind = "handler")
                 => /\ last.cb = "user"
                    /\ last.cbargs = Bind(registered_callback.params,
                                          LeadingOptions(last.argv), <<>>)

\* the callback was registered after the first resolution had injected the
\* flag into the sole command; it then ran with debug set, before a handler
C12_Witness ==
    /\ package_name /\ registered_callback.origin = "user"
    /\ RootCommands # <<>>
    /\ VersionParam \in Range(RootCommands[1].sig)
    /\ last.op = "invoke" /\ last.kind = "handler" /\ last.cb = "user"
    /\ last.cbargs = <<[k |-> "debug", v |-> "True"]>>


\* --------------------------------------------------------------------- C13
\* C13: when the callback the caller registered declares _version itself, the
\* callback is registered as declared (one version parameter, the caller's),
\* the version flag at the top level runs the caller's version callback and
\* prints nothing of the automatic one, and, no command carrying a flag injected
\* by an earlier resolution, no invocation prints the automatic version.
C13_CallerVersionFlagWins ==
    CallerDeclaresVersion
        => /\ registered_callback.sig = registered_callback.params
           /\ Occurrences(registered_callback.sig) = 1
           /\ \A argv \in {<<VersionFlag>>, <<ShortVersionFlag>>, <<VersionFlag, "a">>} :
                 /\ Dispatching(argv).kind = "user_version"
                 /\ Dispatching(argv).output = CallerVersionCallback(TRUE).output
           /\ (last.op = "invoke" /\ SuppliesVersionFlag(last.argv, last.mode))
                 => last.mode = "multi" /\ last.kind = "user_version" /\ last.handler = 0
           /\ (last.op = "invoke"
               /\ \A i \in 1..Len(RootCommands) : RootCommands[i].sig = RootCommands[i].params)
                 => last.kind # "version"

\* a router with a package name and a callback declaring _version was given
\* the flag: the caller's version callback ran
C13_Witness ==
    /\ package_name /\ version_setup_done /\ CallerDeclaresVersion
    /\ last.op = "invoke" /\ last.argv = <<VersionFlag, "a">>
    /\ last.kind = "user_version" /\ last.output = <<"custom-version-output">>

\* --------------------------------------------------------------------- C14
\* C14: a router without a package name never gets a version parameter: every
\* command and the callback expose exactly the parameters they declare, the
\* setup never runs, and (nothing having declared a version flag of its own) an
\* invocation with --version or -V ends as a usage error with a non-zero code.
C14_NoVersionWithoutPackage ==
    ~package_name
        => /\ ~version_setup_done
           /\ \A i \in 1..Len(RootCommands) : RootCommands[i].sig = RootCommands[i].params
           /\ registered_callback.sig = registered_callback.params
           /\ ~(registered_callback.set /\ registered_callback.origin = "default")
           /\ ( /\ last.op = "invoke" /\ last.mode # "error"
                /\ Range(last.argv) \cap VersionFlags # {}
                /\ ~CallerDeclaresVersion )
                 => /\ last.kind = "usage_error"
                    /\ ExitCode(last.kind) # 0
                    /\ last.handler = 0

\* --version was refused by a router without a package name that holds two
\* commands and a callback
C14_Witness ==
    /\ ~package_name /\ Len(RootCommands) = 2 /\ registered_callback.set
    /\ last.op = "invoke" /\ last.argv = <<VersionFlag, "a">>
    /\ last.kind = "usage_error"


\* --------------------------------------------------------------------- C15
\* the parameter names of keyword arguments, in their order
Keys(kw) == [i \in 1..Len(kw) |-> kw[i].k]

\* C15: every command and the caller's callback expose the parameters they
\* declared, in their order, followed by at most the one injected _version;
\* the handler that ran, and the caller's callback before it, were called with
\* exactly the parameters they declared.
C15_InjectionKeepsParameters ==
    /\ \A i \in 1..Len(RootCommands) :
          /\ RootCommands[i].sig \in {RootCommands[i].params,
                                      Append(RootCommands[i].params, VersionParam)}
          /\ RootCommands[i].sig # RootCommands[i].params
                => package_name /\ version_setup_done
    /\ registered_callback.sig \in {registered_callback.params,
                                    Append(registered_callback.params, VersionParam)}
    /\ (last.op = "invoke" /\ last.kind = "handler")
          => /\ \E i \in 1..Len(RootCommands) :
                   /\ RootCommands[i].handler = last.handler
                   /\ Keys(last.args) = RootCommands[i].params
             /\ last.cb = "user" => Keys(last.cbargs) = registered_callback.params

\* the handler of a sole command ran behind the injected flag and received
\* its one argument
C15_Witness ==
    /\ package_name /\ last.op = "invoke" /\ last.mode = "single"
    /\ RootCommands[1].sig = <<"name", VersionParam>>
    /\ last.kind = "handler" /\ last.args = <<[k |-> "name", v |-> "v"]>>

\* --------------------------------------------------------------------- C16
\* what the listing is to show for a listed name: the name, and after it the
\* aliases its registration carries (a command's own, a mount's recorded ones)
DisplayOf(g, n) ==
    LET cmd == DictGet(g.commands, n)
        aliases == IF cmd.kind = "command" THEN cmd.aliases
                   ELSE IF DictHas(group_aliases, n) THEN DictGet(group_aliases, n)
                   ELSE <<>>
    IN IF aliases = <<>> THEN Plain(n) ELSE Decorated(n, aliases)

\* C16 as stated: the command listing of a help render shows every listed name
\* that has aliases as "name (a1, ..., an)", the aliases in registration
\* order, and every listed name without aliases unmodified.  The code does not
\* keep to it: a command that _cmd_aliases holds under two keys is decorated
\* twice.
C16_ListingShowsNameAndAliases ==
    (last.op = "invoke" /\ last.kind = "help" /\ last.mode = "multi")
        => LET g == Built
               listed == ListCommandsOf(g)
           IN last.listing = [i \in 1..Len(listed) |-> DisplayOf(g, listed[i])]

\* --------------------------------------------------------------------- C17
\* C17 as stated: a help render on a group leaves every command of the group
\* with the name it had before the render.  The code does not keep to it: the
\* names are put back in the order they were saved, so a command saved twice
\* keeps its first decoration.
C17_RenderRestoresNames ==
    [][(last'.op = "group_main" /\ last'.kind = "help")
          => group'.g.names = group.g.names]_vars

\* --------------------------------------------------------------------- C18
\* the meta flags the router has at the top level
RouterMetaFlags ==
    {"--help"} \cup CompletionOptions
    \cup (IF package_name /\ ShapeKept THEN VersionFlags ELSE {})

\* C18 as stated: with hide_meta_options the default help shows no meta flag
\* and --help-all is accepted and shows all of them; without it the default
\* help shows the meta flags and --help-all is rejected.  The code does not
\* keep to it for a router resolved to its sole command, which is built as a
\* plain command: nothing is hidden and --help-all is never added.
C18_MetaOptionsHiddenUnlessHelpAll ==
    (last.op = "invoke" /\ last.argv \in HelpArgvs /\ last.mode \in {"single", "multi"})
        => IF hide_meta_options
           THEN /\ last.kind = "help"
                /\ last.argv = <<"--help">> => last.shown \cap MetaOptionStrings = {}
                /\ last.argv = <<"--help-all">> => RouterMetaFlags \subseteq last.shown
           ELSE /\ last.argv = <<"--help">>
                      => (last.kind = "help" /\ RouterMetaFlags \subseteq last.shown)
                /\ last.argv = <<"--help-all">> => last.kind = "usage_error"

\* --------------------------------------------------------------------- C19
\* C19 as stated: the marking --help-all sets lasts for its own invocation
\* only, so every default help render of a group that hides meta options,
\* whatever was rendered on it before, shows no meta flag.  The code does not
\* keep to it: _show_full_help is set on the group and never cleared.
C19_HelpAllMarkingDoesNotPersist ==
    (/\ last.op \in {"invoke", "group_main"} /\ last.mode = "multi"
     /\ last.argv = <<"--help">> /\ last.kind = "help"
     /\ hide_meta_options)
        => last.shown \cap MetaOptionStrings = {}

\* --------------------------------------------------------------------- C20
\* C20: on a router that dispatches by subcommand, a token that no
\* registration uses as a name or as an alias resolves to itself and is not
\* found; its dispatch ends as a usage error (exit code 2, not an exception
\* of the router) and runs no handler.
C20_UnknownTokenIsUsageError ==
    (/\ last.op = "invoke" /\ Len(last.argv) = 1 /\ last.mode = "multi"
     /\ last.argv[1] \notin OtherTokens(0))
        => LET g == Built
               t == last.argv[1]
           IN /\ Resolve(g, t) = t
              /\ ~HasCommand(g, t)
              /\ last.kind = "usage_error"
              /\ ExitCode(last.kind) # 0
              /\ last.handler = 0

\* an unused token was dispatched on a router holding two commands and aliases
C20_Witness ==
    /\ last.op = "invoke" /\ last.mode = "multi"
    /\ last.argv = <<"y">> /\ "y" \notin OtherTokens(0)
    /\ Len(RootCommands) = 2 /\ RegisteredAliases # {}
    /\ last.kind = "usage_error"

\* --------------------------------------------------------------------- C21
\* C21 as stated: the sole command of a router with a package name, called
\* without arguments, shows help and runs no handler exactly when the router's
\* no_args_is_help is on and the command has a required parameter; a command
\* without required parameter runs its handler and exits 0.
C21_NoArgsHelpIffRequiredParams ==
    (last.op = "invoke" /\ last.mode = "single" /\ package_name /\ last.argv = <<>>)
        => LET c == RootCommands[1]
           IN /\ (last.kind = "help" /\ last.handler = 0)
                    <=> (no_args_is_help /\ HasRequiredParams(c.params))
              /\ ~HasRequiredParams(c.params)
                    => (last.kind = "handler" /\ last.handler = c.handler
                        /\ ExitCode(last.kind) = 0)

\* C21 amended: the same for a sole command that was not itself registered
\* with no_args_is_help; one that was shows help when called without arguments
\* whatever the router's setting and the command's parameters.
C21_NoArgsHelpUnlessCommandAsksForIt ==
    (last.op = "invoke" /\ last.mode = "single" /\ package_name /\ last.argv = <<>>)
        => LET c == RootCommands[1]
           IN IF c.no_args THEN last.kind = "help" /\ last.handler = 0
              ELSE /\ (last.kind = "help" /\ last.handler = 0)
                         <=> (no_args_is_help /\ HasRequiredParams(c.params))
                   /\ ~HasRequiredParams(c.params)
                         => (last.kind = "handler" /\ last.handler = c.handler
                             /\ ExitCode(last.kind) = 0)

\* the router's setting reached a sole command with a required parameter
C21_Witness ==
    /\ last.op = "invoke" /\ last.mode = "single" /\ package_name /\ last.argv = <<>>
    /\ no_args_is_help /\ RootCommands[1].params = <<"name">> /\ ~RootCommands[1].no_args
    /\ last.kind = "help"

\* --------------------------------------------------------------------- C22
\* the file a completed write_pid_file leaves at the PID path
CompletePidFile == File(FormatPid(SelfPid))

\* C22 as stated: while write_pid_file is under way the PID path holds what it
\* held before or the complete new PID, and so does whatever a reader gets;
\* the call returns only with the new PID in place; and when it raises, the
\* PID path holds what it held before and the temporary file is gone.  The
\* last part goes too far: the removal is itself allowed to fail.
C22_WriteIsAtomicAndCleansUp ==
    /\ call.op = "write_pid_file" => pid_file \in {call.previous, CompletePidFile}
    /\ (call.op = "write_pid_file" /\ seen.read /\ seen.during)
          => seen.content \in {call.previous, CompletePidFile}
    /\ (result.op = "write_pid_file" /\ result.kind = "return")
          => (pid_file = CompletePidFile /\ tmp_file = Absent)
    /\ (result.op = "write_pid_file" /\ result.kind = "OSError")
          => (pid_file = call.previous /\ tmp_file = Absent)

\* C22: while write_pid_file is under way the PID path holds what it held
\* before or the complete new PID, and so does whatever a reader gets; the
\* call returns only with the new PID in place and no temporary file left;
\* when it raises, the PID path holds what it held before, and the temporary
\* file is gone unless removing it failed as well, in which case it stays,
\* empty or with the complete PID.
C22_WriteIsAtomicCleanupIsBestEffort ==
    /\ call.op = "write_pid_file" => pid_file \in {call.previous, CompletePidFile}
    /\ (call.op = "write_pid_file" /\ seen.read /\ seen.during)
          => seen.content \in {call.previous, CompletePidFile}
    /\ (result.op = "write_pid_file" /\ result.kind = "return")
          => (pid_file = CompletePidFile /\ tmp_file = Absent)
    /\ (result.op = "write_pid_file" /\ result.kind = "OSError")
          => /\ pid_file = call.previous
             /\ result.cleaned => tmp_file = Absent
             /\ tmp_file \in {Absent, File(<<>>), CompletePidFile}

\* a write over an older PID file failed after the temporary file was written,
\* a reader came by meanwhile, and the cleanup removed the temporary file
C22_Witness ==
    /\ result.op = "write_pid_file"
    /\ result.kind = "OSError"
    /\ result.cleaned
    /\ call.previous = File(<<"1", "2", "3", "4", "5", "\n">>)
    /\ seen.read
    /\ seen.during
    /\ tmp_file = Absent

\* --------------------------------------------------------------------- C23
\* a decimal numeral of a positive integer: an optional plus sign, then digits
\* that are not all zero
Unsigned(s) == IF s # <<>> /\ Head(s) = "+" THEN Tail(s) ELSE s

IsPositiveNumeral(s) ==
    /\ Unsigned(s) # <<>>
    /\ \A i \in 1..Len(Unsigned(s)) : Unsigned(s)[i] \in Range(Digits)
    /\ \E i \in 1..Len(Unsigned(s)) : Unsigned(s)[i] # "0"

RECURSIVE DropZeros(_)
DropZeros(s) == IF s # <<>> /\ Head(s) = "0" THEN DropZeros(Tail(s)) ELSE s

\* C23: a read of the PID path gives n exactly when the file is there, can be
\* read and its text, whitespace stripped, is a numeral of the positive
\* integer n, and gives None otherwise; a read that follows a write_pid_file
\* that returned gives the PID of this process.
C23_ReadGivesPositiveIntegerOrNone ==
    seen.read =>
       LET f == seen.content
           s == Strip(f.text)
       IN /\ seen.pid.some <=> (f.exists /\ f.readable /\ IsPositiveNumeral(s))
          /\ seen.pid.some => ToDigits(seen.pid.pid) = DropZeros(Unsigned(s))
          /\ ~seen.pid.some => seen.pid = NoPid
          /\ (result.op = "write_pid_file" /\ result.kind = "return" /\ ~seen.during)
                => seen.pid = SomePid(SelfPid)

\* a file with the text "0\n" was read as None
C23_Witness ==
    /\ seen.read
    /\ seen.content = File(<<"0", "\n">>)
    /\ seen.pid = NoPid

\* --------------------------------------------------------------------- C24
\* C24: the step in which is_process_running runs changes the PID path only by
\* removing the file, and only when remove_stale is set and the PID it holds
\* names a process that is gone; it returns True only when the file holds a
\* PID and that PID names a process that exists.
C24_RemovesOnlyStaleFile ==
    [][(pc = "is_process_running" /\ pc' = "idle")
          => LET recorded == ReadPid(pid_file)
             IN /\ pid_file' # pid_file
                     => /\ pid_file' = Absent
                        /\ call.remove_stale
                        /\ recorded.some
                        /\ process[recorded.pid] = "dead"
                /\ (result'.kind = "return" /\ result'.value)
                     => /\ recorded.some
                        /\ process[recorded.pid] \in {"alive", "foreign"}]_vars

\* a stale PID file was removed by a call with remove_stale set
C24_Witness ==
    /\ result.op = "is_process_running"
    /\ result.kind = "return"
    /\ ~result.value
    /\ result.pid.some
    /\ call.remove_stale
    /\ pid_file = Absent

\* --------------------------------------------------------------------- C25
\* C25 as stated: stop_process returns True only with the process gone, and
\* False only with force_kill off, the deadline passed and the process having
\* run until the deadline; SIGKILL is sent only with force_kill set and the
\* deadline passed.  The code does not keep to it: after the loop it returns
\* False without another look at the process, which may have exited during
\* the last sleep, before the deadline.
C25_FalseOnlyIfStillRunning ==
    (result.op = "stop_process" /\ result.kind = "return")
        => /\ result.value => process[call.pid] = "dead"
           /\ ~result.value
                 => /\ ~call.force_kill
                    /\ clock >= call.deadline
                    /\ ~(call.exited /\ call.exited_at < call.deadline)
           /\ call.killed => (call.force_kill /\ clock >= call.deadline)

\* --------------------------------------------------------------------- C26
\* json.loads of a string: from the opening quote to the closing one, the
\* escapes undone; a raw newline or an unknown escape is no JSON
RECURSIVE ReadChars(_, _)
ReadChars(s, acc) ==
    IF s = <<>> \/ Head(s) = "\n" THEN [ok |-> FALSE, value |-> <<>>, rest |-> <<>>]
    ELSE IF Head(s) = "\"" THEN [ok |-> TRUE, value |-> acc, rest |-> Tail(s)]
    ELSE IF Head(s) # "\\" THEN ReadChars(Tail(s), Append(acc, Head(s)))
    ELSE IF Len(s) < 2 \/ s[2] \notin {"\"", "\\", "n"}
         THEN [ok |-> FALSE, value |-> <<>>, rest |-> <<>>]
         ELSE ReadChars(Tail(Tail(s)), Append(acc, IF s[2] = "n" THEN "\n" ELSE s[2]))

ReadString(s) ==
    IF s = <<>> \/ Head(s) # "\"" THEN [ok |-> FALSE, value |-> <<>>, rest |-> <<>>]
    ELSE ReadChars(Tail(s), <<>>)

\* the error envelope a line of output reads as
ReadEnvelope(out) ==
    LET error == ReadString(IF out = <<>> THEN <<>> ELSE Tail(out))
        message == ReadString(IF error.rest = <<>> THEN <<>> ELSE Tail(error.rest))
    IN IF /\ out # <<>> /\ Head(out) = "{\"ok\": false, \"error\": "
          /\ error.ok
          /\ error.rest # <<>> /\ Head(error.rest) = ", \"message\": "
          /\ message.ok
          /\ message.rest = <<"}", "\n">>
       THEN [read |-> TRUE, error |-> error.value, message |-> message.value]
       ELSE [read |-> FALSE, error |-> <<>>, message |-> <<>>]

\* C26: print_error_and_exit leaves with Exit and code 1 and nothing runs
\* after it; in JSON mode stdout is one line that reads as the envelope with
\* ok false, the code and the message, and stderr is empty; in display mode
\* stderr is "Error: ", the message and a newline, and stdout is empty.
C26_ErrorEnvelopeAndExitOne ==
    result.op = "print_error_and_exit"
        => /\ result.kind = "Exit"
           /\ result.exit_code = 1
           /\ pc = "exited"
           /\ call.json_mode
                 => /\ result.stderr = <<>>
                    /\ ReadEnvelope(result.stdout)
                          = [read |-> TRUE, error |-> call.code, message |-> call.message]
           /\ ~call.json_mode
                 => /\ result.stdout = <<>>
                    /\ result.stderr = <<"Error: ">> \o call.message \o <<"\n">>

\* an error whose message holds a quote and a backslash went out in JSON mode
C26_Witness ==
    /\ result.op = "print_error_and_exit"
    /\ call.json_mode
    /\ call.message = <<"\"", "\\">>
    /\ call.code = <<"N", "_">>

\* --------------------------------------------------------------------- C27
\* a file's lines conform to the schema: every declared field has a line with
\* a value its type takes, and no line has a key that is not declared
Conforms(lines) ==
    /\ \A k \in 1..Len(Schema) :
          \E i \in 1..Len(lines) :
             /\ lines[i].key = Schema[k].name
             /\ Accepts(Schema[k].type, TomlValue(lines[i].value))
    /\ \A i \in 1..Len(lines) : \E k \in 1..Len(Schema) : lines[i].key = Schema[k].name

\* C27: load never raises; it gives an ok result exactly for a file that is
\* there, can be read, is well-formed TOML and conforms to the schema; a
\* well-formed file that does not conform gives an error tagged
\* validation_error with a non-empty list of errors, each naming a key of the
\* file or a declared field; any other failure gives an error that is not
\* tagged validation_error.
C27_LoadReportsEveryFailureAsError ==
    result.op = "load"
        => LET f == call.file
               there == f.exists /\ f.readable
               parses == there /\ TomlLoad(f.text).ok
           IN /\ result.kind = "return"
              /\ result.ok <=> (parses /\ Conforms(f.text))
              /\ (parses /\ ~Conforms(f.text))
                    => /\ result.error = "validation_error"
                       /\ result.errors # <<>>
                       /\ \A e \in 1..Len(result.errors) :
                             \/ \E k \in 1..Len(Schema) : Schema[k].name = result.errors[e].loc
                             \/ \E i \in 1..Len(f.text) : f.text[i].key = result.errors[e].loc
              /\ ~parses => (~result.ok /\ result.error # "validation_error")

\* a file with a host, without a port and with an undeclared key gave a
\* validation error of two entries
C27_Witness ==
    /\ result.op = "load"
    /\ ~result.ok
    /\ result.error = "validation_error"
    /\ Len(result.errors) = 2
    /\ \E e \in 1..Len(result.errors) : result.errors[e].type = "extra_forbidden"
    /\ \E e \in 1..Len(result.errors) : result.errors[e].type = "missing"

\* --------------------------------------------------------------------- C28
\* C28 as stated: an add_typer call that raises because aliases came without a
\* name leaves the router's sub-routers, commands and group aliases as they
\* were.  The code does not keep to it: the parent's add_typer has registered
\* the sub-router before the aliases are looked at.
C28_FailedAddTyperChangesNothing ==
    [][(last'.op = "add_typer" /\ last'.kind = "ValueError")
          => /\ registered_groups' = registered_groups
             /\ registered_commands' = registered_commands
             /\ group_aliases' = group_aliases]_vars

\* --------------------------------------------------------------------- C29
\* C29 as stated: every alias the listing shows next to a name resolves to
\* that name, and dispatching it ends as dispatching the name does.  The code
\* does not keep to it: _cmd_aliases keeps for every name the aliases it was
\* given, _alias_to_cmd keeps for every alias only the name that wrote it last.
C29_DisplayedAliasesResolve ==
    (last.op = "invoke" /\ last.kind = "help" /\ last.mode = "multi")
        => LET g == Built
               listed == ListCommandsOf(g)
           IN \A i \in 1..Len(last.listing) :
                 \A k \in 1..Len(last.listing[i].deco) :
                    \A a \in Range(last.listing[i].deco[k]) :
                       /\ Resolve(g, a) = listed[i]
                       /\ InvokeRootGroup(g, registered_callback, <<a>>)
                             = InvokeRootGroup(g, registered_callback, <<listed[i]>>)

\* --------------------------------------------------------------------- C30
\* C30 as stated: the read that runs the version setup for a sole command
\* raises nothing and leaves the command with exactly one _version parameter,
\* also when the handler declares _version itself.  The code does not keep to
\* it: the single-command branch appends its parameter without looking, and
\* the signature refuses the duplicate.
C30_SoleCommandSetupNeverRaises ==
    (last.op \in Introspections /\ last.setup /\ last.mode = "single")
        => /\ last.kind # "ValueError"
           /\ Occurrences(RootCommands[1].sig) = 1

====
